---- MODULE Spec2Model ----
(***************************************************************************)
(* Verification model of the boosted tree utilities of ml-cpp:             *)
(*   - CDataFrameUtils::stratifiedCrossValidationRowMasks                  *)
(*     (lib/maths/analytics/CDataFrameUtils.cc)                            *)
(*   - boosted_tree_detail::retrainTreeSelectionProbabilities              *)
(*     (lib/maths/analytics/CBoostedTreeUtils.cc)                          *)
(*   - CBoostedTreeNode: split and the two leafIndex traversals            *)
(*     (include/maths/analytics/CBoostedTree.h)                            *)
(*                                                                         *)
(* Conventions.  A row mask (core::CPackedBitVector) is a sequence of      *)
(* BOOLEAN, position i + 1 holding the bit of row index i.  A real number  *)
(* the code holds in a double is held exactly: a fraction is a pair        *)
(* <<numerator, denominator>>, and the result of a floating point division *)
(* by zero is the value NaN.  Random choices (the reservoir samplers) are  *)
(* nondeterministic choices over the outcomes they can produce.            *)
(***************************************************************************)
EXTENDS Integers, Naturals, Sequences, FiniteSets, TLC

(***************************************************************************)
(* Bounds of the explored inputs.                                          *)
(***************************************************************************)
MaxRows == 4
MaxFolds == 3
MaxCategories == 2
MaxRetrainRows == 2
MaxTrees == 2
MaxThreads == 2

VARIABLES
    \* ---- inputs of stratifiedCrossValidationRowMasks
    category,               \* frame: target column value of every row
    allTrainingRowMask,
    numberFolds,
    trainFractionPerFold,   \* <<numerator, denominator>>
    rngOutcomes,            \* which reservoir outcomes are explored
    \* ---- locals and results of stratifiedCrossValidationRowMasks
    pc,
    fold,                   \* index (from 1) of the next testingRowMask
    sampleSize,
    excessSampleSize,
    excessSampler,
    frequencies,
    candidateTestingRowMask,
    testingRowMasks,
    trainingRowMasks,
    fatalErrors,            \* number of HANDLE_FATAL reports
    rowsSampled,            \* number of CStratifiedSampler::sample(row) calls
    swapped,                \* std::swap(trainingRowMasks, testingRowMasks) ran
    \* ---- inputs of retrainTreeSelectionProbabilities
    forest,
    trainingDataRowMask,
    lossGradient,           \* what loss.gradient writes for every row
    numberThreads,
    rowWorker,              \* frame.readRows: the worker reading every row
    encodedRows,            \* encoder.encode(row): the feature values of every row
    \* ---- locals and result of retrainTreeSelectionProbabilities
    retrainPc,
    trainingDataLossGradients,
    result,
    rowsRead,               \* number of rows handed to the row function
    divisions,              \* number of p /= Z executed
    \* ---- a tree grown by CBoostedTreeNode::split and traversed by leafIndex
    tree,
    rowSplits,              \* the BeginSplits region of every row
    treePc,
    splitReturn,            \* the pair the last call of split returned
    traversedRow,           \* the row handed to leafIndex
    cursor,                 \* leafIndex(encodedRow, tree, index): index
    cachedCursor,           \* leafIndex(row, extraColumns, tree, index): index
    \* ---- the extra columns of a row and the helpers that read and write them
    numberLossParameters,
    numberColumns,          \* row.numberColumns(), extra columns included
    extraColumns,           \* the column of every EExtraColumnTag
    incrementalTrain,       \* the previous prediction columns were added
    layoutPc,
    helper,                 \* the last helper called
    addressedTag,           \* the tag whose column the helper started from
    touched,                \* the columns of the row the helper read or wrote
    exampleWeight,          \* what readExampleWeight returned
    \* ---- inputs of categoryFrequencies and categoryCounts
    frameRows,              \* frame: the column values of every row
    columnIsCategorical,    \* frame.columnIsCategorical()
    countsRowMask,
    countsColumnMask,
    countsThreads,          \* numberThreads
    countsRowWorker,        \* frame.readRows: the worker reading every row
    readOk,                 \* whether frame.readRows reports success
    \* ---- locals and results of categoryFrequencies and categoryCounts
    countsPc,
    reduction,              \* TDoubleVecVec result of categoryCounts
    doReduceReturned,       \* "true" or "false", "none" before the call
    reduceFirstCalls,       \* number of calls of the seed step
    reduceCalls,            \* number of calls of the fold step
    reduceOrder,            \* the steps doReduce called, in call order
    countsReturned,         \* what categoryCounts returned
    frequenciesReturned,    \* what categoryFrequencies returned
    \* ---- distributionPreservingSamplingRowMask (reads category and
    \* ---- allTrainingRowMask)
    distributionSourceRowMask,
    samplingPc,
    sortedRowIndices,       \* rowIndices after std::sort
    rowsExtended,           \* iterations done of the loop over rowIndices
    samplesRowMask,
    \* ---- columnDataTypes (reads the frame, the masks and the chunks of
    \* ---- categoryFrequencies)
    typesPc,
    typesReturned

cvVars == <<category, allTrainingRowMask, numberFolds, trainFractionPerFold,
            rngOutcomes, pc, fold, sampleSize, excessSampleSize, excessSampler,
            frequencies, candidateTestingRowMask, testingRowMasks,
            trainingRowMasks, fatalErrors, rowsSampled, swapped>>

retrainInputs == <<forest, trainingDataRowMask, lossGradient, numberThreads,
                   rowWorker, encodedRows>>

retrainVars == <<retrainInputs, retrainPc, trainingDataLossGradients, result,
                 rowsRead, divisions>>

treeVars == <<tree, rowSplits, treePc, splitReturn, traversedRow, cursor,
              cachedCursor>>

layoutInputs == <<numberLossParameters, numberColumns, extraColumns,
                  incrementalTrain>>

layoutVars == <<layoutInputs, layoutPc, helper, addressedTag, touched,
                exampleWeight>>

countsInputs == <<frameRows, columnIsCategorical, countsRowMask,
                  countsColumnMask, countsThreads, countsRowWorker, readOk>>

countsVars == <<countsInputs, countsPc, reduction, doReduceReturned,
                reduceFirstCalls, reduceCalls, reduceOrder, countsReturned,
                frequenciesReturned>>

samplingVars == <<distributionSourceRowMask, samplingPc, sortedRowIndices,
                  rowsExtended, samplesRowMask>>

typesVars == <<typesPc, typesReturned>>

\* What the actions of stratifiedCrossValidationRowMasks leave alone, and
\* what those of retrainTreeSelectionProbabilities leave alone.
otherThanCvVars ==
    <<retrainVars, treeVars, layoutVars, countsVars, samplingVars, typesVars>>
otherThanRetrainVars ==
    <<cvVars, treeVars, layoutVars, countsVars, samplingVars, typesVars>>
otherThanTreeVars ==
    <<cvVars, retrainVars, layoutVars, countsVars, samplingVars, typesVars>>
otherThanLayoutVars ==
    <<cvVars, retrainVars, treeVars, countsVars, samplingVars, typesVars>>
otherThanCountsVars ==
    <<cvVars, retrainVars, treeVars, layoutVars, samplingVars, typesVars>>
otherThanSamplingVars ==
    <<cvVars, retrainVars, treeVars, layoutVars, countsVars, typesVars>>

otherThanTypesVars ==
    <<cvVars, retrainVars, treeVars, layoutVars, countsVars, samplingVars>>

vars == <<cvVars, retrainVars, treeVars, layoutVars, countsVars, samplingVars,
          typesVars>>

(***************************************************************************)
(* Arithmetic helpers.                                                     *)
(***************************************************************************)
Min(a, b) == IF a <= b THEN a ELSE b
Max(a, b) == IF a >= b THEN a ELSE b
CeilDiv(a, b) == (a + b - 1) \div b

RECURSIVE SumSeq(_)
SumSeq(s) == IF s = <<>> THEN 0 ELSE Head(s) + SumSeq(Tail(s))

RECURSIVE SortedSeq(_)
\* std::sort of a vector of distinct row indices.
SortedSeq(S) ==
    IF S = {} THEN <<>>
    ELSE LET m == CHOOSE x \in S : \A y \in S : x <= y
         IN <<m>> \o SortedSeq(S \ {m})

(***************************************************************************)
(* core::CPackedBitVector.                                                 *)
(***************************************************************************)
\* CPackedBitVector{size, value}
PackedBitVector(size, value) == [i \in 1..size |-> value]

\* CPackedBitVector::extend(value, count): appends a run.
Extend(mask, value, count) == mask \o [i \in 1..count |-> value]

\* CPackedBitVector::manhattan(): the population count.
Manhattan(mask) == Cardinality({i \in 1..Len(mask) : mask[i]})

\* operator^=
Xor(a, b) == [i \in 1..Len(a) |-> a[i] /= b[i]]

\* operator|=
Or(a, b) == [i \in 1..Len(a) |-> a[i] \/ b[i]]

\* operator&= (inner() is the population count of it)
And(a, b) == [i \in 1..Len(a) |-> a[i] /\ b[i]]

\* beginOneBits()..endOneBits(): the row indices whose bit is set.
OneBits(mask) == {i - 1 : i \in {j \in 1..Len(mask) : mask[j]}}

(***************************************************************************)
(* The data frame read by the sampler: one categorical target column.      *)
(***************************************************************************)
numberRows == Len(category)

\* The masked rows whose target is category c (the rows the selector of
\* CStratifiedSampler hands to sampler c).
StratumRows(rowMask, c) == {row \in OneBits(rowMask) : category[row + 1] = c}

\* CDataFrameUtils::categoryCounts for the target column: entry c + 1 is the
\* number of masked rows of category c; the vector is resized to the largest
\* category seen plus one.
categoryCounts(rowMask) ==
    LET seen == {category[row + 1] : row \in OneBits(rowMask)}
        size == IF seen = {} THEN 0
                ELSE (CHOOSE c \in seen : \A d \in seen : d <= c) + 1
    IN [i \in 1..size |-> Cardinality(StratumRows(rowMask, i - 1))]

\* CDataFrameUtils::categoryFrequencies: every count divided by
\* Z = rowMask.manhattan(), kept as the pair <<count, Z>>.
categoryFrequencies(rowMask) ==
    LET counts == categoryCounts(rowMask)
        Z == Manhattan(rowMask)
    IN [i \in 1..Len(counts) |-> <<counts[i], Z>>]

(***************************************************************************)
(* common::CSampling::weightedSample(n, weights, sampling): the weighted   *)
(* allocation of n samples to the categories.  Category i gets the integer *)
(* part of n * w(i) / Sum w and the samples left over go one each to the   *)
(* categories with the largest fractional parts (the lowest index first    *)
(* among equals), so the counts sum to max(n, 1).  The weights are the     *)
(* pairs <<count, Z>> of categoryFrequencies, which share Z.               *)
(***************************************************************************)
weightedSample(n, weights) ==
    LET w == [i \in 1..Len(weights) |-> weights[i][1]]
        totalWeight == SumSeq(w)
        m == Max(n, 1)
        whole == [i \in 1..Len(w) |-> (w[i] * m) \div totalWeight]
        part == [i \in 1..Len(w) |-> (w[i] * m) % totalWeight]
        left == m - SumSeq(whole)
        before(i) == {j \in 1..Len(w) :
                         part[j] > part[i] \/ (part[j] = part[i] /\ j < i)}
    IN [i \in 1..Len(w) |->
           whole[i] + (IF Cardinality(before(i)) < left THEN 1 ELSE 0)]

(***************************************************************************)
(* CStratifiedSampler.  A sampler is the vector of its desired counts, one *)
(* reservoir sampler per category; NullSampler is the null pointer.        *)
(***************************************************************************)
NullSampler == [isNull |-> TRUE, desiredCounts |-> <<>>]

\* The outcomes of one reservoir sampler of size count fed the rows of its
\* stratum: all of them when there are no more than count, else count of
\* them: any count of them (draw "any"), or as the bounded outcomes of the
\* scenario runs the count lowest or the count highest row indices.
ReservoirSamples(rows, count, draw) ==
    IF Cardinality(rows) <= count THEN {rows}
    ELSE IF draw = "any"
         THEN {S \in SUBSET rows : Cardinality(S) = count}
         ELSE IF draw = "lowest"
              THEN {{r \in rows : Cardinality({q \in rows : q < r}) < count}}
              ELSE {{r \in rows : Cardinality({q \in rows : q > r}) < count}}

\* The draws explored: rngOutcomes = "all" explores every outcome of every
\* reservoir, "extremes" the outcomes in which every reservoir keeps its
\* lowest rows or every reservoir keeps its highest rows.
Draws == IF rngOutcomes = "all" THEN {"any"} ELSE {"lowest", "highest"}

RECURSIVE finishSampling(_, _, _, _)
\* CStratifiedSampler::finishSampling after sample() was fed every row of
\* rowMask: the possible contents of rowIndices, taking from category c
\* (from c on) min(m_DesiredCounts[c], sampleSize) of its sampled rows.
finishSampling(desiredCounts, rowMask, c, draw) ==
    IF c >= Len(desiredCounts) THEN {{}}
    ELSE {S \cup T :
             S \in ReservoirSamples(StratumRows(rowMask, c), desiredCounts[c + 1], draw),
             T \in finishSampling(desiredCounts, rowMask, c + 1, draw)}

RECURSIVE ExtendWithRows_GapFromRow(_, _)
\* Faulty variant of ExtendWithRows: extend(false, row), the size of the
\* result not taken off.
ExtendWithRows_GapFromRow(sampledMask, rowIndices) ==
    IF rowIndices = <<>> THEN sampledMask
    ELSE ExtendWithRows_GapFromRow(
             Extend(Extend(sampledMask, FALSE, Head(rowIndices)), TRUE, 1),
             Tail(rowIndices))

RECURSIVE ExtendWithRows(_, _)
\* The loop of the sample lambda: for every row index in ascending order
\* result.extend(false, row - result.size()); result.extend(true).
ExtendWithRows(sampledMask, rowIndices) ==
    IF rowIndices = <<>> THEN sampledMask
    ELSE ExtendWithRows(
             Extend(Extend(sampledMask, FALSE, Head(rowIndices) - Len(sampledMask)), TRUE, 1),
             Tail(rowIndices))

\* The mask the sample lambda returns for the sampled rowIndices.
SampledRowMask(rowIndices, rowMask) ==
    LET sampledMask == ExtendWithRows(<<>>, SortedSeq(rowIndices))
    IN Extend(sampledMask, FALSE, Len(rowMask) - Len(sampledMask))

\* The masks the sample lambda can return for a sampler and a row mask.
sample(sampler, rowMask) ==
    {SampledRowMask(rowIndices, rowMask) :
        rowIndices \in UNION {finishSampling(sampler.desiredCounts, rowMask, 0, draw) :
                                 draw \in Draws}}

\* Faulty variant of makeSampler: the desired counts come from the frequencies of all
\* the candidate rows, not from those of the rows still in the pool.
makeSampler_StaleFrequencies(size, rowMask) ==
    IF size > 0
    THEN [isNull |-> FALSE,
          desiredCounts |->
              weightedSample(size, categoryFrequencies(allTrainingRowMask))]
    ELSE NullSampler

\* classifierStratifiedCrossValidationRowSampler behind the makeSampler
\* lambda: null for size 0, else the sampler of the weighted allocation of
\* size to the category frequencies of rowMask.
makeSampler(size, rowMask) ==
    IF size > 0
    THEN [isNull |-> FALSE,
          desiredCounts |-> weightedSample(size, categoryFrequencies(rowMask))]
    ELSE NullSampler

\* Faulty variant of complementRowMasks: |= in the place of ^=.
complementRowMasks_Union(foldRowMasks, allRowsMask) ==
    [f \in 1..Len(foldRowMasks) |-> Or(allRowsMask, foldRowMasks[f])]

\* complementRowMasks: every fold mask exclusive-ored into allRowsMask.
complementRowMasks(foldRowMasks, allRowsMask) ==
    [f \in 1..Len(foldRowMasks) |-> Xor(allRowsMask, foldRowMasks[f])]

(***************************************************************************)
(* CDataFrameUtils::stratifiedCrossValidationRowMasks.                     *)
(***************************************************************************)
\* double numberTrainingRows{allTrainingRowMask.manhattan()}
numberTrainingRows == Manhattan(allTrainingRowMask)

\* sampleFraction = min(trainFractionPerFold, 1 - trainFractionPerFold), as
\* the numerator over the denominator of trainFractionPerFold.
sampleFraction(r) == <<Min(r[1], r[2] - r[1]), r[2]>>

\* excessSampleFraction = max(sampleFraction - 1 / numberFolds, 0), over the
\* denominator r[2] * folds.
excessSampleFraction(r, folds) ==
    <<Max(sampleFraction(r)[1] * folds - r[2], 0), r[2] * folds>>

\* The numbers of folds F, of those up to 12, for which the double 1.0 - r
\* of the double r = 1.0 - 1.0 / F is greater than the double 1.0 / F: for
\* them min(r, 1.0 - r) - 1.0 / F, zero in exact arithmetic, is a positive
\* double (2^-54 for F = 9).  For every other F up to 12 it is <= 0.
RoundedBelowFolds == {9, 11, 12}

\* The double sampleFraction - 1.0 / numberFolds is positive although the
\* exact difference is zero: trainFractionPerFold is the double
\* 1.0 - 1.0 / numberFolds of one of the numbers of folds above.
ExcessFractionRoundsAboveZero(r, folds) ==
    /\ r[1] * folds = r[2] * (folds - 1)
    /\ folds \in RoundedBelowFolds

\* excessSampleSize = ceil(excessSampleFraction * numberTrainingRows): the
\* ceiling of a positive double is at least 1 however small the double.
ExcessSampleSize(r, folds, n) ==
    LET e == excessSampleFraction(r, folds)
    IN IF ExcessFractionRoundsAboveZero(r, folds)
       THEN Min(n, 1)
       ELSE CeilDiv(e[1] * n, e[2])

\* The factor 1 + 1e-8 of the sample size.
SampleSizeSlack == 100000000

\* sampleSize = static_cast<size_t>(max((1 + 1e-8) * (sampleFraction -
\* excessSampleFraction) * numberTrainingRows, 1)).  With x = a / b the
\* product is floor(x) + 1 exactly when a >= (b - a % b) * 1e8.
SampleSize(r, folds, n) ==
    LET e == excessSampleFraction(r, folds)
        a == (sampleFraction(r)[1] * folds - e[1]) * n
        b == e[2]
        bump == IF a \div SampleSizeSlack >= b - (a % b) THEN 1 ELSE 0
    IN Max((a \div b) + bump, 1)

\* Faulty variant of InsufficientTrainingData: off by one.
InsufficientTrainingData_OffByOne(n, folds) == n + 1 < folds

\* if (static_cast<size_t>(numberTrainingRows) < numberFolds): the input error.
InsufficientTrainingData(n, folds) == n < folds

\* Faulty variant of RemoveSampled: the sampled rows stay in the pool.
RemoveSampled_Kept(candidate, sampled) == candidate

\* candidateTestingRowMask ^= testingRowMask: the sampled rows leave the pool.
RemoveSampled(candidate, sampled) == Xor(candidate, sampled)

\* Faulty variant of SwapTrainAndTest: > in the place of <.
SwapTrainAndTest_Above(r) == 2 * r[1] > r[2]

\* if (trainFractionPerFold < 0.5) std::swap(trainingRowMasks, testingRowMasks)
SwapTrainAndTest(r) == 2 * r[1] < r[2]

\* Faulty variant of TakeRemainder: the remainder is taken as soon as no more
\* than two samples are left.
TakeRemainder_TwoShares(candidate, size) == Manhattan(candidate) <= 2 * size

\* Faulty variant of TakeRemainder: >= in the place of <=.
TakeRemainder_Reversed(candidate, size) == Manhattan(candidate) >= size

\* if (candidateTestingRowMask.manhattan() <= sampleSize): the fold takes
\* the whole remaining mask.
TakeRemainder(candidate, size) == Manhattan(candidate) <= size

\* The excess sampling of a fold: testingRowMask |= sample(excessSampler,
\* allTrainingRowMask ^ testingRowMask) when there is an excess sampler.
WithExcessSample(testingRowMask) ==
    IF excessSampler.isNull THEN {testingRowMask}
    ELSE {Or(testingRowMask, excess) :
             excess \in sample(excessSampler, Xor(allTrainingRowMask, testingRowMask))}

\* The rows fed to CStratifiedSampler::sample by the excess sampling.
ExcessRowsRead(testingRowMask) ==
    IF excessSampler.isNull THEN 0
    ELSE Manhattan(Xor(allTrainingRowMask, testingRowMask))

cvInputs == <<category, allTrainingRowMask, numberFolds, trainFractionPerFold,
              rngOutcomes>>

\* Lines 539-543: fewer candidate rows than folds.
InsufficientRows ==
    /\ pc = "call"
    /\ InsufficientTrainingData(numberTrainingRows, numberFolds)
    /\ fatalErrors' = fatalErrors + 1
    /\ pc' = "done"
    /\ trainingRowMasks' = <<>>
    /\ testingRowMasks' = <<>>
    /\ frequencies' = <<>>
    /\ UNCHANGED <<cvInputs, fold, sampleSize, excessSampleSize, excessSampler,
                   candidateTestingRowMask, rowsSampled, swapped>>
    /\ UNCHANGED otherThanCvVars

\* Lines 545-601: the sizes, the excess sampler and the empty test masks.
Begin ==
    /\ pc = "call"
    /\ ~InsufficientTrainingData(numberTrainingRows, numberFolds)
    /\ excessSampleSize' =
           ExcessSampleSize(trainFractionPerFold, numberFolds, numberTrainingRows)
    /\ sampleSize' = SampleSize(trainFractionPerFold, numberFolds, numberTrainingRows)
    /\ excessSampler' = makeSampler(excessSampleSize', allTrainingRowMask)
    /\ frequencies' = IF excessSampleSize' > 0
                      THEN categoryFrequencies(allTrainingRowMask)
                      ELSE frequencies
    /\ testingRowMasks' = [f \in 1..numberFolds |-> <<>>]
    /\ candidateTestingRowMask' = allTrainingRowMask
    /\ fold' = 1
    /\ pc' = "folds"
    /\ UNCHANGED <<cvInputs, trainingRowMasks, fatalErrors, rowsSampled, swapped>>
    /\ UNCHANGED otherThanCvVars

\* The end of one iteration of the loop over testingRowMasks.
NextFold ==
    /\ fold' = fold + 1
    /\ pc' = IF fold = numberFolds THEN "complement" ELSE "folds"

\* Lines 603-605 and 615-617: the fold takes what remains.
FoldRemainder ==
    /\ pc = "folds"
    /\ TakeRemainder(candidateTestingRowMask, sampleSize)
    /\ \E testingRowMask \in WithExcessSample(candidateTestingRowMask) :
          /\ testingRowMasks' = [testingRowMasks EXCEPT ![fold] = testingRowMask]
          /\ rowsSampled' = rowsSampled + ExcessRowsRead(candidateTestingRowMask)
    /\ candidateTestingRowMask' = PackedBitVector(Len(candidateTestingRowMask), FALSE)
    /\ NextFold
    /\ UNCHANGED <<cvInputs, sampleSize, excessSampleSize, excessSampler,
                   frequencies, trainingRowMasks, fatalErrors, swapped>>
    /\ UNCHANGED otherThanCvVars

\* Lines 606-617: the fold is sampled from what remains.
FoldSample ==
    /\ pc = "folds"
    /\ ~TakeRemainder(candidateTestingRowMask, sampleSize)
    /\ LET sampler == makeSampler(sampleSize, candidateTestingRowMask)
       IN IF sampler.isNull
          THEN /\ fatalErrors' = fatalErrors + 1
               /\ pc' = "done"
               /\ trainingRowMasks' = <<>>
               /\ testingRowMasks' = <<>>
               /\ frequencies' = <<>>
               /\ UNCHANGED <<fold, candidateTestingRowMask, rowsSampled>>
          ELSE /\ frequencies' = categoryFrequencies(candidateTestingRowMask)
               /\ \E sampled \in sample(sampler, candidateTestingRowMask) :
                     /\ candidateTestingRowMask' =
                            RemoveSampled(candidateTestingRowMask, sampled)
                     /\ \E testingRowMask \in WithExcessSample(sampled) :
                           testingRowMasks' =
                               [testingRowMasks EXCEPT ![fold] = testingRowMask]
                     /\ rowsSampled' = rowsSampled + Manhattan(candidateTestingRowMask)
                                           + ExcessRowsRead(sampled)
               /\ NextFold
               /\ UNCHANGED <<trainingRowMasks, fatalErrors>>
    /\ UNCHANGED <<cvInputs, sampleSize, excessSampleSize, excessSampler, swapped>>
    /\ UNCHANGED otherThanCvVars

\* Lines 620-626: the complements, the swap and the return.
Complement ==
    /\ pc = "complement"
    /\ LET complements == complementRowMasks(testingRowMasks, allTrainingRowMask)
       IN IF SwapTrainAndTest(trainFractionPerFold)
          THEN /\ trainingRowMasks' = testingRowMasks
               /\ testingRowMasks' = complements
               /\ swapped' = TRUE
          ELSE /\ trainingRowMasks' = complements
               /\ UNCHANGED <<testingRowMasks, swapped>>
    /\ pc' = "done"
    /\ UNCHANGED <<cvInputs, fold, sampleSize, excessSampleSize, excessSampler,
                   frequencies, candidateTestingRowMask, fatalErrors, rowsSampled>>
    /\ UNCHANGED otherThanCvVars

(***************************************************************************)
(* CDataFrameUtils::distributionPreservingSamplingRowMask for a            *)
(* categorical target.                                                     *)
(***************************************************************************)
\* classifierDistributionPreservingRowSampler: one reservoir for every entry
\* of the category counts of rowMask, of that count.
classifierDistributionPreservingRowSampler(rowMask) ==
    [isNull |-> FALSE, desiredCounts |-> categoryCounts(rowMask)]

\* The rows of allTrainingRowMask for which m_Samplers[m_Selector(row)] of
\* CStratifiedSampler::sample is past the end of m_Samplers.
RowsWithoutSampler(sampler) ==
    {row \in OneBits(allTrainingRowMask) :
        category[row + 1] >= Len(sampler.desiredCounts)}

\* sampler->finishSampling(rng, rowIndices); std::sort(...): the possible
\* sorted row indices after every row of allTrainingRowMask was sampled.
SortedRowIndices(sampler) ==
    {SortedSeq(rowIndices) :
        rowIndices \in UNION {finishSampling(sampler.desiredCounts,
                                             allTrainingRowMask, 0, draw) :
                                 draw \in Draws}}

\* Lines 697-701: fewer than two training rows.
InsufficientTrainingRows ==
    /\ samplingPc = "call"
    /\ numberTrainingRows < 2
    /\ samplesRowMask' = <<>>
    /\ samplingPc' = "failed"
    /\ UNCHANGED <<distributionSourceRowMask, sortedRowIndices, rowsExtended>>
    /\ UNCHANGED otherThanSamplingVars

\* Lines 703-723: the sampler of the source mask samples the rows of
\* allTrainingRowMask, every one of which selects a reservoir.
SampleTrainingRows ==
    /\ samplingPc = "call"
    /\ numberTrainingRows >= 2
    /\ LET sampler == classifierDistributionPreservingRowSampler(distributionSourceRowMask)
       IN /\ RowsWithoutSampler(sampler) = {}
          /\ sortedRowIndices' \in SortedRowIndices(sampler)
    /\ samplingPc' = "extend"
    /\ UNCHANGED <<distributionSourceRowMask, rowsExtended, samplesRowMask>>
    /\ UNCHANGED otherThanSamplingVars

\* Lines 703-723 when a row of allTrainingRowMask selects a reservoir past
\* the end of m_Samplers: the behaviour is undefined; the outcomes kept are
\* that the call does not return and that the row is passed over.
SampleRowWithoutSampler ==
    /\ samplingPc = "call"
    /\ numberTrainingRows >= 2
    /\ LET sampler == classifierDistributionPreservingRowSampler(distributionSourceRowMask)
       IN /\ RowsWithoutSampler(sampler) # {}
          /\ \/ /\ samplingPc' = "undefined"
                /\ UNCHANGED sortedRowIndices
             \/ /\ samplingPc' = "extend"
                /\ sortedRowIndices' \in SortedRowIndices(sampler)
    /\ UNCHANGED <<distributionSourceRowMask, rowsExtended, samplesRowMask>>
    /\ UNCHANGED otherThanSamplingVars

\* Lines 726-729: one iteration of the loop over rowIndices.
ExtendWithSampledRow ==
    /\ samplingPc = "extend"
    /\ rowsExtended < Len(sortedRowIndices)
    /\ samplesRowMask' =
           ExtendWithRows(samplesRowMask, <<sortedRowIndices[rowsExtended + 1]>>)
    /\ rowsExtended' = rowsExtended + 1
    /\ UNCHANGED <<distributionSourceRowMask, samplingPc, sortedRowIndices>>
    /\ UNCHANGED otherThanSamplingVars

\* Lines 730-733: the mask is extended to the size of allTrainingRowMask and
\* returned.
ReturnSamplesRowMask ==
    /\ samplingPc = "extend"
    /\ rowsExtended = Len(sortedRowIndices)
    /\ samplesRowMask' =
           Extend(samplesRowMask, FALSE, Len(allTrainingRowMask) - Len(samplesRowMask))
    /\ samplingPc' = "done"
    /\ UNCHANGED <<distributionSourceRowMask, sortedRowIndices, rowsExtended>>
    /\ UNCHANGED otherThanSamplingVars

(***************************************************************************)
(* CBoostedTreeNode: a tree is the vector of its nodes, the root at index  *)
(* 0; position k + 1 of the sequence holds the node of index k.            *)
(***************************************************************************)
\* std::nullopt of m_LeftChild and m_RightChild
NoChild == -1

\* The value of a cell for which CDataFrameUtils::isMissing holds.
Missing == -1

\* CBoostedTreeNode(numberLossParameters): a leaf.
LeafNode ==
    [leftChild |-> NoChild, rightChild |-> NoChild, splitFeature |-> 0,
     splitValue |-> 0, split |-> 0, missingSplit |-> 0,
     assignMissingToLeft |-> TRUE]

\* bool isLeaf() const { return m_LeftChild == std::nullopt; }
isLeaf(node) == node.leftChild = NoChild

\* missingSplit(candidateSplits): the split index that stands for a missing
\* value.
missingSplit(candidateSplits) == Len(candidateSplits) + 1

\* std::upper_bound(values.begin(), values.end(), value) - values.begin() of
\* an ascending vector: the number of its elements that are <= value.
UpperBound(values, value) ==
    Cardinality({i \in 1..Len(values) : values[i] <= value})

\* Faulty variant of split: only the left child is appended.
split_OneChild(candidateSplits, nodes, index, splitFeature, splitValue, assignMissingToLeft) ==
    [nodes EXCEPT ![index + 1] =
        [leftChild |-> Len(nodes), rightChild |-> NoChild,
         splitFeature |-> splitFeature, splitValue |-> splitValue,
         split |-> 0, missingSplit |-> 0,
         assignMissingToLeft |-> assignMissingToLeft]]
        \o <<LeafNode>>

\* Faulty variant of split: the children are inserted at the front of the
\* vector after the root, so that the nodes behind them move up.
split_Inserted(candidateSplits, nodes, index, splitFeature, splitValue, assignMissingToLeft) ==
    LET moved == [k \in 1..Len(nodes) |->
                     IF k = index + 1
                     THEN [leftChild |-> 1, rightChild |-> 2,
                           splitFeature |-> splitFeature, splitValue |-> splitValue,
                           split |-> 0, missingSplit |-> 0,
                           assignMissingToLeft |-> assignMissingToLeft]
                     ELSE IF isLeaf(nodes[k]) THEN nodes[k]
                          ELSE [nodes[k] EXCEPT !.leftChild = @ + 2,
                                                !.rightChild = @ + 2]]
    IN <<moved[1], LeafNode, LeafNode>> \o SubSeq(moved, 2, Len(moved))

\* Faulty variant of split: the left child index is the node's own index.
split_SelfChild(candidateSplits, nodes, index, splitFeature, splitValue, assignMissingToLeft) ==
    [nodes EXCEPT ![index + 1] =
        [leftChild |-> index, rightChild |-> Len(nodes) + 1,
         splitFeature |-> splitFeature, splitValue |-> splitValue,
         split |-> 0, missingSplit |-> 0,
         assignMissingToLeft |-> assignMissingToLeft]]
        \o <<LeafNode, LeafNode>>

\* CBoostedTreeNode::split on the node of index index of the vector nodes:
\* the node gets the split, its position among the candidate splits of the
\* feature (none for the overload that stubs out candidateSplits), and the
\* indices of the two leaves appended to the vector.
split(candidateSplits, nodes, index, splitFeature, splitValue, assignMissingToLeft) ==
    [nodes EXCEPT ![index + 1] =
        [leftChild |-> Len(nodes), rightChild |-> Len(nodes) + 1,
         splitFeature |-> splitFeature, splitValue |-> splitValue,
         split |-> IF candidateSplits = <<>> THEN 0
                   ELSE UpperBound(candidateSplits[splitFeature + 1], splitValue),
         missingSplit |-> IF candidateSplits = <<>> THEN 0
                          ELSE missingSplit(candidateSplits[splitFeature + 1]),
         assignMissingToLeft |-> assignMissingToLeft]]
        \o <<LeafNode, LeafNode>>

\* encodedRow[feature]: the value of the feature for the row.
featureValue(row, feature) == encodedRows[row + 1][feature + 1]

\* CBoostedTreeNode::assignToLeft(encodedRow): the intervals are open above,
\* the left child gets the values strictly less than the split value, and
\* the flag routes the missing values.
assignToLeft(node, row) ==
    LET value == featureValue(row, node.splitFeature)
    IN IF value = Missing THEN node.assignMissingToLeft
       ELSE value < node.splitValue

\* CBoostedTreeNode::assignToLeft(row, extraColumns): as above from the split
\* index cached for the feature in the BeginSplits region of the row.
assignToLeftCached(node, row) ==
    LET cached == rowSplits[row + 1][node.splitFeature + 1]
    IN IF cached = node.missingSplit THEN node.assignMissingToLeft
       ELSE cached < node.split

RECURSIVE leafIndex(_, _, _)
\* CBoostedTreeNode::leafIndex(encodedRow, tree, index)
leafIndex(row, nodes, index) ==
    LET node == nodes[index + 1]
    IN IF isLeaf(node) THEN index
       ELSE IF assignToLeft(node, row)
            THEN leafIndex(row, nodes, node.leftChild)
            ELSE leafIndex(row, nodes, node.rightChild)

\* The trees explored, each built from a single root by the split overload
\* that stubs out candidateSplits.
Stump == <<LeafNode>>
SplitAt1 == split(<<>>, Stump, 0, 0, 1, TRUE)
SplitAt2 == split(<<>>, Stump, 0, 0, 2, TRUE)
SplitAt1Then2 == split(<<>>, SplitAt1, 2, 0, 2, TRUE)
ExploredTrees == {Stump, SplitAt1, SplitAt2, SplitAt1Then2}

(***************************************************************************)
(* Growing a tree by split and traversing it by the two leafIndex.         *)
(***************************************************************************)
MaxNodes == 5
\* The candidate splits of the two features explored, ascending.
CandidateSplits == <<<<1, 2>>, <<1>>>>

NumberFeatures == Len(CandidateSplits)

\* The values explored for the feature: missing, below the candidate splits
\* and every candidate split.
FeatureValues(feature) ==
    {Missing, 0} \cup {CandidateSplits[feature + 1][k] :
                          k \in 1..Len(CandidateSplits[feature + 1])}

\* The rows explored.
EncodedRows ==
    {values \in [1..NumberFeatures ->
                     UNION {FeatureValues(f) : f \in 0..(NumberFeatures - 1)}] :
        \A f \in 1..NumberFeatures : values[f] \in FeatureValues(f - 1)}

\* Faulty variant of cachedSplit: std::lower_bound for std::upper_bound.
cachedSplit_LowerBound(values, feature) ==
    IF values[feature + 1] = Missing
    THEN missingSplit(CandidateSplits[feature + 1])
    ELSE Cardinality({i \in 1..Len(CandidateSplits[feature + 1]) :
                         CandidateSplits[feature + 1][i] < values[feature + 1]})

\* The split index cached in the BeginSplits region for the feature of a row
\* with these values.
cachedSplit(values, feature) ==
    IF values[feature + 1] = Missing
    THEN missingSplit(CandidateSplits[feature + 1])
    ELSE UpperBound(CandidateSplits[feature + 1], values[feature + 1])

\* The BeginSplits region of a row with these values.
cachedSplits(values) == [f \in 1..NumberFeatures |-> cachedSplit(values, f - 1)]

\* The leaves of the tree, as node indices.
Leaves == {k \in 0..(Len(tree) - 1) : isLeaf(tree[k + 1])}

\* tree[leaf].split(candidateSplits, splitFeature, splitValue, ...), tree)
\* for a leaf of the tree.
SplitLeaf(candidateSplits) ==
    /\ Len(tree) + 2 <= MaxNodes
    /\ \E leaf \in Leaves, feature \in 0..(NumberFeatures - 1),
          assignMissingToLeft \in BOOLEAN :
          \E k \in 1..Len(CandidateSplits[feature + 1]) :
             /\ tree' = split(candidateSplits, tree, leaf, feature,
                              CandidateSplits[feature + 1][k], assignMissingToLeft)
             /\ splitReturn' = <<tree'[leaf + 1].leftChild, tree'[leaf + 1].rightChild>>
    /\ UNCHANGED <<rowSplits, treePc, traversedRow, cursor, cachedCursor>>
    /\ UNCHANGED otherThanTreeVars

\* The split overload that takes the candidate splits.
SplitWithCandidates ==
    /\ treePc = "grow"
    /\ SplitLeaf(CandidateSplits)

\* The split overload that stubs out candidateSplits.
SplitWithoutCandidates ==
    /\ treePc = "grow"
    /\ SplitLeaf(<<>>)

\* root(tree).leafIndex(...) is called for a row, by one overload and then
\* by the other.
CallLeafIndex ==
    /\ treePc = "grow"
    /\ \E row \in 0..(Len(encodedRows) - 1) : traversedRow' = row
    /\ cursor' = 0
    /\ cachedCursor' = 0
    /\ treePc' = "traverse"
    /\ UNCHANGED <<tree, rowSplits, splitReturn>>
    /\ UNCHANGED otherThanTreeVars

\* One level of the recursion of leafIndex(encodedRow, tree, index).
Descend ==
    /\ treePc = "traverse"
    /\ ~isLeaf(tree[cursor + 1])
    /\ cursor' = IF assignToLeft(tree[cursor + 1], traversedRow)
                 THEN tree[cursor + 1].leftChild
                 ELSE tree[cursor + 1].rightChild
    /\ UNCHANGED <<tree, rowSplits, treePc, splitReturn, traversedRow, cachedCursor>>
    /\ UNCHANGED otherThanTreeVars

\* One level of the recursion of leafIndex(row, extraColumns, tree, index),
\* which is called when leafIndex(encodedRow, tree, index) is at its leaf.
DescendCached ==
    /\ treePc = "traverse"
    /\ isLeaf(tree[cursor + 1])
    /\ ~isLeaf(tree[cachedCursor + 1])
    /\ cachedCursor' = IF assignToLeftCached(tree[cachedCursor + 1], traversedRow)
                       THEN tree[cachedCursor + 1].leftChild
                       ELSE tree[cachedCursor + 1].rightChild
    /\ UNCHANGED <<tree, rowSplits, treePc, splitReturn, traversedRow, cursor>>
    /\ UNCHANGED otherThanTreeVars

\* if (this->isLeaf()) return index, in both overloads.
ReturnLeafIndex ==
    /\ treePc = "traverse"
    /\ isLeaf(tree[cursor + 1])
    /\ isLeaf(tree[cachedCursor + 1])
    /\ treePc' = "returned"
    /\ UNCHANGED <<tree, rowSplits, splitReturn, traversedRow, cursor, cachedCursor>>
    /\ UNCHANGED otherThanTreeVars

\* Growing goes on after the leaf indices were returned.
ResumeGrowing ==
    /\ treePc = "returned"
    /\ treePc' = "grow"
    /\ UNCHANGED <<tree, rowSplits, splitReturn, traversedRow, cursor, cachedCursor>>
    /\ UNCHANGED otherThanTreeVars

(***************************************************************************)
(* The extra columns of a row: EExtraColumnTag, extraColumnsForTrain and   *)
(* the helpers which read and write them.                                  *)
(***************************************************************************)
MaxLossParameters == 3
MaxFrameColumns == 3

\* enum EExtraColumnTag
E_Prediction == 0
E_Gradient == 1
E_Curvature == 2
E_Weight == 3
E_PreviousPrediction == 4
E_BeginSplits == 5

\* std::numeric_limits<std::size_t>::max(): the largest integer of the model
\* stands for the largest std::size_t.
UNIT_ROW_WEIGHT_COLUMN == 2147483647

\* The number of CFloatStorage cells in the 16 bytes of E_Aligned16.
Aligned16Cells == 4

\* lossHessianUpperTriangleSize(numberLossParameters)
lossHessianUpperTriangleSize(P) == (P * (P + 1)) \div 2

\* Faulty variant of extraColumnsForTrain: the gradient columns hold the
\* upper triangle of the Hessian too and the curvature columns hold the
\* upper triangle only.
extraColumnsForTrain_Triangle(P) ==
    <<[size |-> P, alignment |-> "E_Unaligned"],
      [size |-> P + lossHessianUpperTriangleSize(P), alignment |-> "E_Aligned16"],
      [size |-> lossHessianUpperTriangleSize(P), alignment |-> "E_Unaligned"]>>

\* extraColumnsForTrain(numberLossParameters): prediction, gradient,
\* curvature.
extraColumnsForTrain(P) ==
    <<[size |-> P, alignment |-> "E_Unaligned"],
      [size |-> P, alignment |-> "E_Aligned16"],
      [size |-> P * P, alignment |-> "E_Unaligned"]>>

\* extraColumnsForIncrementalTrain(numberLossParameters): previous
\* prediction.
extraColumnsForIncrementalTrain(P) ==
    <<[size |-> P, alignment |-> "E_Unaligned"]>>

\* The first column at or after the column which has the alignment.
AlignedColumn(column, alignment) ==
    IF alignment = "E_Aligned16"
    THEN CeilDiv(column, Aligned16Cells) * Aligned16Cells
    ELSE column

RECURSIVE resizeColumns(_, _)
\* CDataFrame::resizeColumns(numberThreads, extraColumns): the first column
\* of every block of extra columns appended after the columns of the frame,
\* each block starting at the alignment asked for.
resizeColumns(columns, blocks) ==
    IF blocks = <<>> THEN <<>>
    ELSE LET first == AlignedColumn(columns, Head(blocks).alignment)
         IN <<first>> \o resizeColumns(first + Head(blocks).size, Tail(blocks))

\* The column after the last of the blocks.
resizedNumberColumns(columns, blocks) ==
    IF blocks = <<>> THEN columns
    ELSE resizeColumns(columns, blocks)[Len(blocks)] + blocks[Len(blocks)].size

\* The columns reserved for the tag.
reservedWidth(tag) ==
    IF tag = E_PreviousPrediction
    THEN extraColumnsForIncrementalTrain(numberLossParameters)[1].size
    ELSE extraColumnsForTrain(numberLossParameters)[tag + 1].size

\* The columns [first, first + count).
Columns(first, count) == first..(first + count - 1)

\* Faulty variant of zeroLossGradient: the loop runs over the gradient and
\* the upper triangle of the Hessian.
zeroLossGradient_WithHessian(columns, P) ==
    Columns(columns[E_Gradient + 1], P + lossHessianUpperTriangleSize(P))

\* readPrediction: numberLossParameters cells from extraColumns[E_Prediction].
readPrediction(columns, P) == Columns(columns[E_Prediction + 1], P)

\* zeroPrediction: writeColumn(extraColumns[E_Prediction] + i) for i < P.
zeroPrediction(columns, P) == {columns[E_Prediction + 1] + i : i \in 0..(P - 1)}

\* writePrediction: writeColumn(extraColumns[E_Prediction] + i) for i < P.
writePrediction(columns, P) == {columns[E_Prediction + 1] + i : i \in 0..(P - 1)}

\* writePreviousPrediction: writeColumn(extraColumns[E_PreviousPrediction] + i)
\* for i < P.
writePreviousPrediction(columns, P) ==
    {columns[E_PreviousPrediction + 1] + i : i \in 0..(P - 1)}

\* readPreviousPrediction: numberLossParameters cells from
\* extraColumns[E_PreviousPrediction].
readPreviousPrediction(columns, P) == Columns(columns[E_PreviousPrediction + 1], P)

\* readLossDerivatives: numberLossParameters +
\* lossHessianUpperTriangleSize(numberLossParameters) cells from
\* extraColumns[E_Gradient].
readLossDerivatives(columns, P) ==
    Columns(columns[E_Gradient + 1], P + lossHessianUpperTriangleSize(P))

\* zeroLossGradient: writeColumn(extraColumns[E_Gradient] + i) for i < P.
zeroLossGradient(columns, P) == {columns[E_Gradient + 1] + i : i \in 0..(P - 1)}

\* writeLossGradient: loss.gradient calls writer(i, value) for every
\* component i < P of the gradient.
writeLossGradient(columns, P) == {columns[E_Gradient + 1] + i : i \in 0..(P - 1)}

\* readLossCurvature: lossHessianUpperTriangleSize(numberLossParameters)
\* cells from extraColumns[E_Curvature].
readLossCurvature(columns, P) ==
    Columns(columns[E_Curvature + 1], lossHessianUpperTriangleSize(P))

\* zeroLossCurvature: writeColumn(extraColumns[E_Curvature] + i) for
\* i < lossHessianUpperTriangleSize(P).
zeroLossCurvature(columns, P) ==
    {columns[E_Curvature + 1] + i : i \in 0..(lossHessianUpperTriangleSize(P) - 1)}

\* writeLossCurvature: loss.curvature calls writer(i, value) for every
\* element i of the upper triangle of the Hessian.
writeLossCurvature(columns, P) ==
    {columns[E_Curvature + 1] + i : i \in 0..(lossHessianUpperTriangleSize(P) - 1)}

\* row[column]: the cell of the row, every cell of the explored row holding
\* a different value.
rowCell(column) == column + 2

\* Faulty variant of readExampleWeight: the row is indexed before the
\* sentinel is looked at.
readExampleWeight_Indexed(columns) ==
    [weight |-> IF columns[E_Weight + 1] = UNIT_ROW_WEIGHT_COLUMN THEN 1
                ELSE rowCell(columns[E_Weight + 1]),
     indexed |-> {columns[E_Weight + 1]}]

\* readExampleWeight: the weight returned and the columns of the row it
\* indexed.
readExampleWeight(columns) ==
    LET weightColumn == columns[E_Weight + 1]
    IN IF weightColumn = UNIT_ROW_WEIGHT_COLUMN
       THEN [weight |-> 1, indexed |-> {}]
       ELSE [weight |-> rowCell(weightColumn), indexed |-> {weightColumn}]

\* A helper was called: the tag it addresses and the columns it touched.
Called(name, tag, columns) ==
    /\ helper' = name
    /\ addressedTag' = tag
    /\ touched' = columns
    /\ layoutPc' = "called"
    /\ UNCHANGED <<layoutInputs, exampleWeight>>
    /\ UNCHANGED otherThanLayoutVars

ReadPrediction ==
    /\ layoutPc # "idle"
    /\ Called("readPrediction", E_Prediction,
              readPrediction(extraColumns, numberLossParameters))

ZeroPrediction ==
    /\ layoutPc # "idle"
    /\ Called("zeroPrediction", E_Prediction,
              zeroPrediction(extraColumns, numberLossParameters))

WritePrediction ==
    /\ layoutPc # "idle"
    /\ Called("writePrediction", E_Prediction,
              writePrediction(extraColumns, numberLossParameters))

WritePreviousPrediction ==
    /\ layoutPc # "idle"
    /\ incrementalTrain
    /\ Called("writePreviousPrediction", E_PreviousPrediction,
              writePreviousPrediction(extraColumns, numberLossParameters))

ReadPreviousPrediction ==
    /\ layoutPc # "idle"
    /\ incrementalTrain
    /\ Called("readPreviousPrediction", E_PreviousPrediction,
              readPreviousPrediction(extraColumns, numberLossParameters))

ReadLossDerivatives ==
    /\ layoutPc # "idle"
    /\ Called("readLossDerivatives", E_Gradient,
              readLossDerivatives(extraColumns, numberLossParameters))

ZeroLossGradient ==
    /\ layoutPc # "idle"
    /\ Called("zeroLossGradient", E_Gradient,
              zeroLossGradient(extraColumns, numberLossParameters))

WriteLossGradient ==
    /\ layoutPc # "idle"
    /\ Called("writeLossGradient", E_Gradient,
              writeLossGradient(extraColumns, numberLossParameters))

ReadLossCurvature ==
    /\ layoutPc # "idle"
    /\ Called("readLossCurvature", E_Curvature,
              readLossCurvature(extraColumns, numberLossParameters))

ZeroLossCurvature ==
    /\ layoutPc # "idle"
    /\ Called("zeroLossCurvature", E_Curvature,
              zeroLossCurvature(extraColumns, numberLossParameters))

WriteLossCurvature ==
    /\ layoutPc # "idle"
    /\ Called("writeLossCurvature", E_Curvature,
              writeLossCurvature(extraColumns, numberLossParameters))

\* double weight{readExampleWeight(*row, extraColumns)};
ReadExampleWeight ==
    /\ layoutPc # "idle"
    /\ helper' = "readExampleWeight"
    /\ addressedTag' = E_Weight
    /\ touched' = readExampleWeight(extraColumns).indexed
    /\ exampleWeight' = readExampleWeight(extraColumns).weight
    /\ layoutPc' = "called"
    /\ UNCHANGED layoutInputs
    /\ UNCHANGED otherThanLayoutVars

(***************************************************************************)
(* doReduce, CDataFrameUtils::categoryCounts and categoryFrequencies over  *)
(* a frame read by several workers.                                        *)
(***************************************************************************)
MaxCountRows == 3
NumberCountColumns == 2

\* removeMetricColumns(frame, columnMask): the columns of the mask which are
\* categorical.
removeMetricColumns(columnMask) ==
    {i \in columnMask : columnIsCategorical[i + 1]}

\* TDoubleVecVec(frame.numberColumns())
EmptyCounts == [i \in 1..NumberCountColumns |-> <<>>]

\* std::vector::resize(max(size(), size), 0.0)
ResizedTo(values, size) ==
    IF size > Len(values)
    THEN values \o [k \in 1..(size - Len(values)) |-> 0]
    ELSE values

\* The body of the loop of readCategoryCounts for one row: for every column
\* of the mask whose value is not missing the count of the value goes up by
\* one, the vector resized to hold it.
countRow(counts, row, columnMask) ==
    [i \in 1..Len(counts) |->
        IF (i - 1) \in columnMask /\ frameRows[row + 1][i] # Missing
        THEN LET category_ == frameRows[row + 1][i]
             IN [ResizedTo(counts[i], category_ + 1) EXCEPT ![category_ + 1] = @ + 1]
        ELSE counts[i]]

RECURSIVE readCategoryCounts(_, _, _)
\* The readCategoryCounts lambda over the rows of one worker in order.
readCategoryCounts(counts, rows, columnMask) ==
    IF rows = <<>> THEN counts
    ELSE readCategoryCounts(countRow(counts, Head(rows), columnMask),
                            Tail(rows), columnMask)

\* frame.readRows(numberThreads, 0, frame.numberRows(), readCategoryCounts,
\* &rowMask): the state of every worker after it read the masked rows of
\* its chunk, and whether the read succeeded.
countsReadRows(columnMask) ==
    <<[w \in 1..countsThreads |->
          readCategoryCounts(
              EmptyCounts,
              SortedSeq({row \in OneBits(countsRowMask) : countsRowWorker[row + 1] = w - 1}),
              columnMask)],
      readOk>>

\* The copyCategoryCounts lambda: result = std::move(counts).
copyCategoryCounts(counts, result_) == counts

\* Faulty variant of reduceCategoryCounts: the counts of the worker replace
\* those of the result.
reduceCategoryCounts_Overwrite(counts, result_) ==
    [i \in 1..Len(counts) |->
        LET resized == ResizedTo(result_[i], Len(counts[i]))
        IN [j \in 1..Len(resized) |->
               IF j <= Len(counts[i]) THEN counts[i][j] ELSE resized[j]]]

\* The reduceCategoryCounts lambda: every result[i] is resized to the longer
\* of the two and counts[i][j] is added to result[i][j].
reduceCategoryCounts(counts, result_) ==
    [i \in 1..Len(counts) |->
        LET resized == ResizedTo(result_[i], Len(counts[i]))
        IN [j \in 1..Len(resized) |->
               resized[j] + (IF j <= Len(counts[i]) THEN counts[i][j] ELSE 0)]]

RECURSIVE reduceRest(_, _, _)
\* for (i = 1; i < readResults.first.size(); ++i) reduce(..., reduction)
reduceRest(first, i, result_) ==
    IF i > Len(first) THEN result_
    ELSE reduceRest(first, i + 1, reduceCategoryCounts(first[i], result_))

RECURSIVE reduceRestCalls(_, _)
\* The calls of reduce made by the loop from i on, each with the index of
\* the worker whose state it is handed.
reduceRestCalls(first, i) ==
    IF i > Len(first) THEN <<>>
    ELSE <<<<"reduce", i - 1>>>> \o reduceRestCalls(first, i + 1)

\* Faulty variant of doReduce: the success flag is not looked at.
doReduce_IgnoringFlag(readResults, result_) ==
    [returned |-> readResults[2],
     reduction |-> reduceRest(readResults[1], 2,
                              copyCategoryCounts(readResults[1][1], result_)),
     reduceFirstCalls |-> 1,
     reduceCalls |-> Len(readResults[1]) - 1,
     order |-> <<<<"reduceFirst", 0>>>> \o reduceRestCalls(readResults[1], 2)]

\* Faulty variant of doReduce: the loop over the other workers runs before
\* the first worker's state is copied, which replaces what was added.
doReduce_FoldBeforeSeed(readResults, result_) ==
    IF readResults[2] = FALSE
    THEN [returned |-> FALSE, reduction |-> result_,
          reduceFirstCalls |-> 0, reduceCalls |-> 0, order |-> <<>>]
    ELSE [returned |-> TRUE,
          reduction |-> copyCategoryCounts(readResults[1][1], result_),
          reduceFirstCalls |-> 1,
          reduceCalls |-> Len(readResults[1]) - 1,
          order |-> reduceRestCalls(readResults[1], 2) \o <<<<"reduceFirst", 0>>>>]

\* doReduce(readResults, copyCategoryCounts, reduceCategoryCounts, result):
\* what it returns, the reduction after it, and how often it called the two
\* steps.
doReduce(readResults, result_) ==
    IF readResults[2] = FALSE
    THEN [returned |-> FALSE, reduction |-> result_,
          reduceFirstCalls |-> 0, reduceCalls |-> 0, order |-> <<>>]
    ELSE [returned |-> TRUE,
          reduction |-> reduceRest(readResults[1], 2,
                                   copyCategoryCounts(readResults[1][1], result_)),
          reduceFirstCalls |-> 1,
          reduceCalls |-> Len(readResults[1]) - 1,
          order |-> <<<<"reduceFirst", 0>>>> \o reduceRestCalls(readResults[1], 2)]

\* categoryCounts returns before reading: the frame has no rows or no
\* column of the mask is categorical.
CategoryCountsOfNothing ==
    /\ countsPc = "call"
    /\ Len(frameRows) = 0 \/ removeMetricColumns(countsColumnMask) = {}
    /\ countsReturned' = EmptyCounts
    /\ countsPc' = "counted"
    /\ UNCHANGED <<countsInputs, reduction, doReduceReturned, reduceFirstCalls,
                   reduceCalls, reduceOrder, frequenciesReturned>>
    /\ UNCHANGED otherThanCountsVars

\* categoryCounts reads the rows and reduces what the workers counted.
CategoryCounts ==
    /\ countsPc = "call"
    /\ ~(Len(frameRows) = 0 \/ removeMetricColumns(countsColumnMask) = {})
    /\ LET reduced == doReduce(countsReadRows(removeMetricColumns(countsColumnMask)),
                               reduction)
       IN /\ reduction' = reduced.reduction
          /\ doReduceReturned' = IF reduced.returned THEN "true" ELSE "false"
          /\ reduceFirstCalls' = reduced.reduceFirstCalls
          /\ reduceCalls' = reduced.reduceCalls
          /\ reduceOrder' = reduced.order
          /\ countsReturned' = reduced.reduction
    /\ countsPc' = "counted"
    /\ UNCHANGED <<countsInputs, frequenciesReturned>>
    /\ UNCHANGED otherThanCountsVars

\* categoryFrequencies: every count is divided by Z = rowMask.manhattan(),
\* kept as the pair <<count, Z>>.
CategoryFrequencies ==
    /\ countsPc = "counted"
    /\ frequenciesReturned' =
           [i \in 1..Len(countsReturned) |->
               [j \in 1..Len(countsReturned[i]) |->
                   <<countsReturned[i][j], Manhattan(countsRowMask)>>]]
    /\ countsPc' = "done"
    /\ UNCHANGED <<countsInputs, reduction, doReduceReturned, reduceFirstCalls,
                   reduceCalls, reduceOrder, countsReturned>>
    /\ UNCHANGED otherThanCountsVars

(***************************************************************************)
(* CDataFrameUtils::columnDataTypes without an encoder.                    *)
(***************************************************************************)
\* {TMinMax{}, true}: no value was added.
InitialType == [initial |-> TRUE, min |-> 0, max |-> 0, isInteger |-> TRUE]

\* TMinMaxBoolPrVec(frame.numberColumns(), {TMinMax{}, true})
InitialTypes == [i \in 1..NumberCountColumns |-> InitialType]

\* types[i].first.add(value) and the conjunction with the value being whole;
\* every value of the explored frames is whole.
AddedValue(type, value) ==
    IF type.initial
    THEN [initial |-> FALSE, min |-> value, max |-> value, isInteger |-> type.isInteger]
    ELSE [initial |-> FALSE, min |-> Min(type.min, value),
          max |-> Max(type.max, value), isInteger |-> type.isInteger]

RECURSIVE readDataTypes(_, _, _)
\* The readDataTypes lambda over the rows of one worker in order.
readDataTypes(types, rows, columnMask) ==
    IF rows = <<>> THEN types
    ELSE readDataTypes(
             [i \in 1..Len(types) |->
                 IF (i - 1) \in columnMask /\ Head(rows)[i] # Missing
                 THEN AddedValue(types[i], Head(rows)[i])
                 ELSE types[i]],
             Tail(rows), columnMask)

\* frame.readRows(numberThreads, 0, frame.numberRows(), readDataTypes,
\* &rowMask).
dataTypesReadRows(columnMask) ==
    <<[w \in 1..countsThreads |->
          readDataTypes(
              InitialTypes,
              [k \in 1..Len(SortedSeq({row \in OneBits(countsRowMask) :
                                          countsRowWorker[row + 1] = w - 1})) |->
                  frameRows[SortedSeq({row \in OneBits(countsRowMask) :
                                          countsRowWorker[row + 1] = w - 1})[k] + 1]],
              columnMask)],
      readOk>>

\* The copyDataTypes lambda.
copyDataTypes(types, result_) == types

\* The reduceDataTypes lambda: the columns of the mask are merged.
reduceDataTypes(types, result_, columnMask) ==
    [i \in 1..Len(result_) |->
        IF (i - 1) \in columnMask
        THEN IF types[i].initial THEN result_[i]
             ELSE [AddedValue(AddedValue(result_[i], types[i].min), types[i].max)
                      EXCEPT !.isInteger = result_[i].isInteger /\ types[i].isInteger]
        ELSE result_[i]]

\* doReduce(readResults, copyDataTypes, reduceDataTypes, result): what it
\* returns and the reduction after it.
doReduceDataTypes(readResults, columnMask, result_) ==
    IF readResults[2] = FALSE
    THEN [returned |-> FALSE, reduction |-> result_]
    ELSE LET first == readResults[1]
             reduced[i \in 1..Len(first)] ==
                 IF i = 1 THEN copyDataTypes(first[1], result_)
                 ELSE reduceDataTypes(first[i], reduced[i - 1], columnMask)
         IN [returned |-> TRUE, reduction |-> reduced[Len(first)]]

\* The types after the call of doReduce at lines 465-467, empty before it.
reducedDataTypes ==
    doReduceDataTypes(dataTypesReadRows(countsColumnMask), countsColumnMask,
                      <<>>).reduction

\* The columns of the mask past the end of types and of result.
ColumnsPastEnd(types) == {i \in countsColumnMask : i >= Len(types)}

\* Lines 415-417: the frame has no rows.
ColumnDataTypesOfNothing ==
    /\ typesPc = "call"
    /\ Len(frameRows) = 0
    /\ typesReturned' = <<>>
    /\ typesPc' = "done"
    /\ UNCHANGED otherThanTypesVars

\* Lines 419-475: the types are read and reduced, and result[i] is set from
\* types[i] for every column of the mask.
ColumnDataTypes ==
    /\ typesPc = "call"
    /\ Len(frameRows) # 0
    /\ ColumnsPastEnd(reducedDataTypes) = {}
    /\ typesReturned' =
           [i \in 1..Len(reducedDataTypes) |->
               IF (i - 1) \in countsColumnMask
               THEN [isInteger |-> reducedDataTypes[i].isInteger,
                     min |-> reducedDataTypes[i].min,
                     max |-> reducedDataTypes[i].max]
               ELSE [isInteger |-> FALSE, min |-> 0, max |-> 0]]
    /\ typesPc' = "done"
    /\ UNCHANGED otherThanTypesVars

\* Lines 469-473 when types is shorter than a column of the mask: result[i]
\* and types[i] are past the end of both vectors and the behaviour is
\* undefined; the outcomes kept are that the call does not return and that
\* it returns the result it sized from types.
ColumnDataTypesPastEnd ==
    /\ typesPc = "call"
    /\ Len(frameRows) # 0
    /\ ColumnsPastEnd(reducedDataTypes) # {}
    /\ \/ /\ typesPc' = "undefined"
          /\ UNCHANGED typesReturned
       \/ /\ typesPc' = "done"
          /\ typesReturned' =
                 [i \in 1..Len(reducedDataTypes) |->
                     [isInteger |-> FALSE, min |-> 0, max |-> 0]]
    /\ UNCHANGED otherThanTypesVars

(***************************************************************************)
(* boosted_tree_detail::retrainTreeSelectionProbabilities.                 *)
(***************************************************************************)
\* loss.numberParameters() of the loss explored (CMse).
NumberLossParameters == 1

\* The gradients explored for every loss parameter of a row.
GradientValues == {-1, 0, 1}

\* TDoubleVector::Zero(numberLossParameters)
ZeroVector == [j \in 1..NumberLossParameters |-> 0]

VectorSum(x, y) == [j \in 1..Len(x) |-> x[j] + y[j]]

Abs(x) == IF x < 0 THEN -x ELSE x

\* lpNorm<1>()
L1Norm(x) == SumSeq([j \in 1..Len(x) |-> Abs(x[j])])

\* A double divided by a double: x / 0 is not a number (0 / 0) or infinite.
Divide(x, Z) ==
    IF Z = 0 THEN [finite |-> FALSE, num |-> x, den |-> 0]
    ELSE [finite |-> TRUE, num |-> x, den |-> Z]

\* Faulty variant of TooFewTrees: only the empty forest returns early.
TooFewTrees_OnlyEmpty(trees) == Len(trees) < 1

\* if (forest.size() < 2) return {};
TooFewTrees(trees) == Len(trees) < 2

\* makeZeroLeafLossGradients: a zero vector for every node of every tree.
makeZeroLeafLossGradients ==
    [i \in 1..Len(forest) |-> [k \in 1..Len(forest[i]) |-> ZeroVector]]

\* The body of the row loop of makeComputeTotalLossGradient for one row: for
\* every tree the writer stores the row's gradient at the row's leaf,
\* leafLossGradients[i][leaf](j) = gradient.
computeTotalLossGradient(leafLossGradients, row) ==
    [i \in 1..Len(forest) |->
        [leafLossGradients[i] EXCEPT
            ![leafIndex(row, forest[i], 0) + 1] = lossGradient[row + 1]]]

RECURSIVE readChunk(_, _)
\* The row function over the rows of one worker in ascending order.
readChunk(leafLossGradients, rows) ==
    IF rows = <<>> THEN leafLossGradients
    ELSE readChunk(computeTotalLossGradient(leafLossGradients, Head(rows)), Tail(rows))

\* frame.readRows(numberThreads, 0, frame.numberRows(), ..., &rowMask): the
\* state of every worker after it read the masked rows of its chunk.
readRows(rowMask) ==
    [w \in 1..numberThreads |->
        readChunk(makeZeroLeafLossGradients,
                  SortedSeq({row \in OneBits(rowMask) : rowWorker[row + 1] = w - 1}))]

RECURSIVE mergeWorkers(_, _, _)
\* Lines 190-198: the state of worker 0 plus those of workers 1, 2, ...
mergeWorkers(leafLossGradients, results, w) ==
    IF w > Len(results) THEN leafLossGradients
    ELSE mergeWorkers(
             [j \in 1..Len(leafLossGradients) |->
                 [k \in 1..Len(leafLossGradients[j]) |->
                     VectorSum(leafLossGradients[j][k], results[w][j][k])]],
             results, w + 1)

\* The computeLeafLossGradients lambda.
computeLeafLossGradients(rowMask) ==
    LET results == readRows(rowMask)
    IN mergeWorkers(results[1], results, 2)

RECURSIVE propagateLossGradients_PreOrder(_, _, _)
\* Faulty variant of propagateLossGradients: a node adds the gradients of
\* its children before the children are visited.
propagateLossGradients_PreOrder(node, nodes, lossGradients) ==
    IF isLeaf(nodes[node + 1]) THEN lossGradients
    ELSE LET left == nodes[node + 1].leftChild
             right == nodes[node + 1].rightChild
             added == [lossGradients EXCEPT
                          ![node + 1] = VectorSum(VectorSum(lossGradients[node + 1],
                                                            lossGradients[left + 1]),
                                                  lossGradients[right + 1])]
             afterLeft == propagateLossGradients_PreOrder(left, nodes, added)
         IN propagateLossGradients_PreOrder(right, nodes, afterLeft)

RECURSIVE propagateLossGradients(_, _, _)
\* propagateLossGradients(node, tree, lossGradients): post order depth first.
propagateLossGradients(node, nodes, lossGradients) ==
    IF isLeaf(nodes[node + 1]) THEN lossGradients
    ELSE LET left == nodes[node + 1].leftChild
             right == nodes[node + 1].rightChild
             afterLeft == propagateLossGradients(left, nodes, lossGradients)
             afterRight == propagateLossGradients(right, nodes, afterLeft)
         IN [afterRight EXCEPT
                ![node + 1] = VectorSum(VectorSum(afterRight[node + 1],
                                                  afterRight[left + 1]),
                                        afterRight[right + 1])]

\* Lines 217-224: result[i] for tree index i >= 1 is the sum over the node
\* indices j >= 1 of the L1 norm of the node's gradient; result[0] is 0.
treeScore(i) ==
    IF i = 0 THEN 0
    ELSE SumSeq([j \in 1..(Len(forest[i + 1]) - 1) |->
                    L1Norm(trainingDataLossGradients[i + 1][j + 1])])

retrainLocals == <<trainingDataLossGradients, result, rowsRead, divisions>>

\* Lines 147-149: fewer than two trees.
ReturnNoProbabilities ==
    /\ retrainPc = "call"
    /\ TooFewTrees(forest)
    /\ result' = <<>>
    /\ retrainPc' = "done"
    /\ UNCHANGED <<retrainInputs, trainingDataLossGradients, rowsRead, divisions>>
    /\ UNCHANGED otherThanRetrainVars

\* Line 204: the leaf loss gradients of the training rows.
ComputeLeafLossGradients ==
    /\ retrainPc = "call"
    /\ ~TooFewTrees(forest)
    /\ trainingDataLossGradients' = computeLeafLossGradients(trainingDataRowMask)
    /\ rowsRead' = rowsRead + Manhattan(trainingDataRowMask)
    /\ retrainPc' = "propagate"
    /\ UNCHANGED <<retrainInputs, result, divisions>>
    /\ UNCHANGED otherThanRetrainVars

\* Lines 205-207: the gradients of the internal nodes.
PropagateLossGradients ==
    /\ retrainPc = "propagate"
    /\ trainingDataLossGradients' =
           [i \in 1..Len(forest) |->
               propagateLossGradients(0, forest[i], trainingDataLossGradients[i])]
    /\ retrainPc' = "normalise"
    /\ UNCHANGED <<retrainInputs, result, rowsRead, divisions>>
    /\ UNCHANGED otherThanRetrainVars

\* Lines 217-230: the scores divided by their sum Z.
Normalise ==
    /\ retrainPc = "normalise"
    /\ LET Z == SumSeq([i \in 1..(Len(forest) - 1) |-> treeScore(i)])
       IN result' = [i \in 1..Len(forest) |-> Divide(treeScore(i - 1), Z)]
    /\ divisions' = divisions + Len(forest)
    /\ retrainPc' = "done"
    /\ UNCHANGED <<retrainInputs, trainingDataLossGradients, rowsRead>>
    /\ UNCHANGED otherThanRetrainVars

(***************************************************************************)
(* The explored calls of stratifiedCrossValidationRowMasks.                *)
(***************************************************************************)
\* The train fractions explored: those of the tests (0.1, 0.4 and
\* 1 - 1 / numberFolds) and 1 / 2, 4 / 5.
TrainFractions ==
    {<<1, 10>>, <<2, 5>>, <<1, 2>>, <<4, 5>>}
        \cup {<<f - 1, f>> : f \in 2..MaxFolds}

\* The target columns explored: the rows are listed by ascending category.
TargetColumns(rows, categories) ==
    {c \in [1..rows -> 0..(categories - 1)] :
        \A i \in 1..(rows - 1) : c[i] <= c[i + 1]}

cvStart ==
    /\ fold = 0
    /\ sampleSize = 0
    /\ excessSampleSize = 0
    /\ excessSampler = NullSampler
    /\ frequencies = <<>>
    /\ candidateTestingRowMask = <<>>
    /\ testingRowMasks = <<>>
    /\ trainingRowMasks = <<>>
    /\ fatalErrors = 0
    /\ rowsSampled = 0
    /\ swapped = FALSE

\* No call of stratifiedCrossValidationRowMasks.
cvIdle ==
    /\ category = <<>>
    /\ allTrainingRowMask = <<>>
    /\ numberFolds = 1
    /\ trainFractionPerFold = <<1, 2>>
    /\ rngOutcomes = "all"
    /\ pc = "idle"
    /\ cvStart

retrainStart ==
    /\ trainingDataLossGradients = <<>>
    /\ result = <<>>
    /\ rowsRead = 0
    /\ divisions = 0

\* No call of retrainTreeSelectionProbabilities.
retrainIdle ==
    /\ forest = <<>>
    /\ trainingDataRowMask = <<>>
    /\ lossGradient = <<>>
    /\ numberThreads = 1
    /\ rowWorker = <<>>
    /\ encodedRows = <<>>
    /\ retrainPc = "idle"
    /\ retrainStart

\* No tree is grown.
treeIdle ==
    /\ tree = <<>>
    /\ rowSplits = <<>>
    /\ treePc = "idle"
    /\ splitReturn = <<>>
    /\ traversedRow = 0
    /\ cursor = 0
    /\ cachedCursor = 0

\* No row has extra columns.
layoutIdle ==
    /\ numberLossParameters = 0
    /\ numberColumns = 0
    /\ extraColumns = <<>>
    /\ incrementalTrain = FALSE
    /\ layoutPc = "idle"
    /\ helper = ""
    /\ addressedTag = 0
    /\ touched = {}
    /\ exampleWeight = 0

\* categoryFrequencies is not called.
countsIdle ==
    /\ frameRows = <<>>
    /\ columnIsCategorical = <<>>
    /\ countsRowMask = <<>>
    /\ countsColumnMask = {}
    /\ countsThreads = 1
    /\ countsRowWorker = <<>>
    /\ readOk = TRUE
    /\ countsPc = "idle"
    /\ reduction = <<>>
    /\ doReduceReturned = "none"
    /\ reduceFirstCalls = 0
    /\ reduceCalls = 0
    /\ reduceOrder = <<>>
    /\ countsReturned = <<>>
    /\ frequenciesReturned = <<>>

\* No call of distributionPreservingSamplingRowMask.
samplingIdle ==
    /\ distributionSourceRowMask = <<>>
    /\ samplingPc = "idle"
    /\ sortedRowIndices = <<>>
    /\ rowsExtended = 0
    /\ samplesRowMask = <<>>

\* No call of columnDataTypes.
typesIdle ==
    /\ typesPc = "idle"
    /\ typesReturned = <<>>

Init ==
    /\ category \in TargetColumns(MaxRows, MaxCategories)
    /\ allTrainingRowMask \in [1..MaxRows -> BOOLEAN]
    /\ numberFolds \in 1..MaxFolds
    /\ trainFractionPerFold \in TrainFractions
    /\ rngOutcomes = "all"
    /\ pc = "call"
    /\ cvStart
    /\ retrainIdle
    /\ treeIdle
    /\ layoutIdle
    /\ countsIdle
    /\ samplingIdle
    /\ typesIdle

(***************************************************************************)
(* The calls of the unit tests and of the rare category scenario, on whole *)
(* frames (every row a candidate but for the first MaskedOut of them).     *)
(***************************************************************************)
\* testStratifiedCrossValidationRowMasksRareCategories: 25 rows, 7 categories.
RareCategoriesTestColumn ==
    <<0, 0, 0, 1, 1, 1, 1, 1, 2, 2, 2, 2, 3, 3, 3, 3, 3, 3, 4, 5, 5, 6, 6, 6, 6>>

\* The scenario with category counts {3, 5, 1, 5}.
RareCategoriesScenarioColumn == <<0, 0, 0, 1, 1, 1, 1, 1, 2, 3, 3, 3, 3, 3>>

\* Columns for the calls with a train fraction below one half and for the
\* call with 9 folds: ten rows with category counts {4, 3, 2, 1} and five
\* rows of five categories.
TenRowsColumn == <<0, 0, 0, 0, 1, 1, 1, 2, 2, 3>>
DistinctCategoriesColumn == <<0, 1, 2, 3, 4>>

MaxScenarioFolds == 5
MaxMaskedOut == 1

Scenarios ==
    {[column |-> c, folds |-> f, fraction |-> <<f - 1, f>>] :
        c \in {RareCategoriesTestColumn, RareCategoriesScenarioColumn},
        f \in 2..MaxScenarioFolds}
    \cup
    {[column |-> c, folds |-> 3, fraction |-> r] :
        c \in {TenRowsColumn, DistinctCategoriesColumn},
        r \in {<<1, 10>>, <<2, 5>>}}
    \cup
    {[column |-> DistinctCategoriesColumn, folds |-> 6, fraction |-> <<5, 6>>],
     [column |-> TenRowsColumn, folds |-> 9, fraction |-> <<8, 9>>],
     [column |-> <<0, 0, 0, 0, 1>>, folds |-> 3, fraction |-> <<2, 3>>]}

ScenarioInit ==
    /\ \E s \in Scenarios :
          /\ category = s.column
          /\ numberFolds = s.folds
          /\ trainFractionPerFold = s.fraction
          /\ \E k \in 0..MaxMaskedOut :
                allTrainingRowMask =
                    Extend(PackedBitVector(k, FALSE), TRUE, Len(s.column) - k)
    /\ rngOutcomes = "extremes"
    /\ pc = "call"
    /\ cvStart
    /\ retrainIdle
    /\ treeIdle
    /\ layoutIdle
    /\ countsIdle
    /\ samplingIdle
    /\ typesIdle

Next ==
    \/ InsufficientRows
    \/ Begin
    \/ FoldRemainder
    \/ FoldSample
    \/ Complement

Spec == Init /\ [][Next]_vars

ScenarioSpec == ScenarioInit /\ [][Next]_vars

(***************************************************************************)
(* The explored calls of retrainTreeSelectionProbabilities.                *)
(***************************************************************************)
\* The chunks of readRows: contiguous row ranges, one per worker in order.
Chunkings(rows, threads) ==
    {c \in [1..rows -> 0..(threads - 1)] :
        \A i \in 1..(rows - 1) : c[i] <= c[i + 1]}

RetrainInit ==
    /\ forest \in UNION {[1..k -> ExploredTrees] : k \in 0..MaxTrees}
    /\ trainingDataRowMask \in [1..MaxRetrainRows -> BOOLEAN]
    /\ lossGradient \in
           [1..MaxRetrainRows -> [1..NumberLossParameters -> GradientValues]]
    /\ numberThreads \in 1..MaxThreads
    /\ rowWorker \in Chunkings(MaxRetrainRows, numberThreads)
    /\ encodedRows = [row \in 1..MaxRetrainRows |-> <<row - 1>>]
    /\ retrainPc = "call"
    /\ retrainStart
    /\ cvIdle
    /\ treeIdle
    /\ layoutIdle
    /\ countsIdle
    /\ samplingIdle
    /\ typesIdle

RetrainNext ==
    \/ ReturnNoProbabilities
    \/ ComputeLeafLossGradients
    \/ PropagateLossGradients
    \/ Normalise

RetrainSpec == RetrainInit /\ [][RetrainNext]_vars

(***************************************************************************)
(* Properties of stratifiedCrossValidationRowMasks.                        *)
(***************************************************************************)
\* The call returned its masks (no fatal error).
Returned == pc = "done" /\ fatalErrors = 0

Folds == 1..Len(testingRowMasks)

Disjoint(a, b) == Manhattan(And(a, b)) = 0

PairwiseDisjoint(masks) ==
    \A f, g \in 1..Len(masks) : f /= g => Disjoint(masks[f], masks[g])

\* The number of masks a row is set in.
Multiplicity(masks, row) == Cardinality({f \in 1..Len(masks) : masks[f][row + 1]})

\* trainFractionPerFold = 1 - 1 / numberFolds
KFoldFraction ==
    trainFractionPerFold[1] * numberFolds = trainFractionPerFold[2] * (numberFolds - 1)

\* The test set is the sampled set and no excess rows are sampled:
\* 1 / 2 <= r and 1 - r <= 1 / numberFolds for the double r passed.
TestSetIsSampledOnce ==
    /\ 2 * trainFractionPerFold[1] >= trainFractionPerFold[2]
    /\ (trainFractionPerFold[2] - trainFractionPerFold[1]) * numberFolds
           <= trainFractionPerFold[2]
    /\ ~ExcessFractionRoundsAboveZero(trainFractionPerFold, numberFolds)

C2_TestMasksCoverCandidatesOnce ==
    (Returned /\ KFoldFraction /\ numberFolds >= 2) =>
        \A row \in 0..(numberRows - 1) :
            Multiplicity(testingRowMasks, row) = IF allTrainingRowMask[row + 1] THEN 1 ELSE 0

\* C3: for every returned fold the train mask and the test mask are disjoint
\* and their union is exactly the candidate mask.
C3_TrainTestPartitionCandidates ==
    Returned =>
        \A f \in Folds :
            /\ Disjoint(trainingRowMasks[f], testingRowMasks[f])
            /\ Or(trainingRowMasks[f], testingRowMasks[f]) = allTrainingRowMask

C3_Witness ==
    /\ Returned
    /\ numberFolds >= 2
    /\ excessSampleSize >= 1
    /\ numberTrainingRows < numberRows
    /\ \A f \in Folds : /\ Manhattan(trainingRowMasks[f]) >= 1
                        /\ Manhattan(testingRowMasks[f]) >= 1

\* C4 (as claimed): the sampled set and its complement swap roles exactly
\* when the train fraction is greater than 0.5.
C4_SwapIffFractionAboveHalf ==
    Returned => (swapped <=> 2 * trainFractionPerFold[1] > trainFractionPerFold[2])

\* C4 (amended): the sampled set and its complement swap train/test roles at
\* the end exactly when the train fraction r is less than 0.5: the sampled
\* masks are returned as the train masks when r < 0.5 and as the test masks
\* otherwise.
C4_SwapIffFractionBelowHalf ==
    [][pc = "complement" =>
          IF 2 * trainFractionPerFold[1] < trainFractionPerFold[2]
          THEN /\ swapped'
               /\ trainingRowMasks' = testingRowMasks
               /\ testingRowMasks' = complementRowMasks(testingRowMasks, allTrainingRowMask)
          ELSE /\ ~swapped'
               /\ testingRowMasks' = testingRowMasks
               /\ trainingRowMasks' = complementRowMasks(testingRowMasks, allTrainingRowMask)
      ]_vars

C4_Witness ==
    /\ Returned
    /\ swapped
    /\ 2 * trainFractionPerFold[1] < trainFractionPerFold[2]
    /\ \A f \in Folds : Manhattan(trainingRowMasks[f]) < Manhattan(testingRowMasks[f])

\* C7: with fewer candidate rows than folds the call reports one fatal
\* error and returns three empty results without sampling any row.
C7_InsufficientRowsIsFatal ==
    (pc = "done" /\ numberTrainingRows < numberFolds) =>
        /\ fatalErrors = 1
        /\ trainingRowMasks = <<>>
        /\ testingRowMasks = <<>>
        /\ frequencies = <<>>
        /\ rowsSampled = 0

C7_Witness ==
    /\ pc = "done"
    /\ numberTrainingRows >= 1
    /\ numberTrainingRows < numberFolds
    /\ fatalErrors = 1

(***************************************************************************)
(* Properties of the test and scenario calls.                              *)
(***************************************************************************)
AllRowsAreCandidates == numberTrainingRows = numberRows

\* The union of the masks.
UnionMask(masks) ==
    [i \in 1..numberRows |-> \E f \in 1..Len(masks) : masks[f][i]]

EqualSizes(masks) ==
    \A f, g \in 1..Len(masks) : Manhattan(masks[f]) = Manhattan(masks[g])

\* The rare category calls: 5 folds, r = 0.8, every row a candidate.
RareCategoriesCall(column) ==
    /\ Returned
    /\ category = column
    /\ numberFolds = 5
    /\ trainFractionPerFold = <<4, 5>>
    /\ AllRowsAreCandidates

C10_SmallFractionTrainSize ==
    (/\ Returned
     /\ numberFolds = 3
     /\ trainFractionPerFold \in {<<1, 10>>, <<2, 5>>}
     /\ AllRowsAreCandidates
     /\ (trainFractionPerFold[1] * numberRows) % trainFractionPerFold[2] = 0) =>
        \A f \in Folds :
            /\ Manhattan(trainingRowMasks[f]) * trainFractionPerFold[2]
                   = trainFractionPerFold[1] * numberRows
            /\ Manhattan(Or(trainingRowMasks[f], testingRowMasks[f])) = numberRows

(***************************************************************************)
(* The explored trees: grown from a single root over a frame of one row.   *)
(***************************************************************************)
MaxTreeRows == 1

\* The rows explored, listed by ascending value of the first feature, and
\* their BeginSplits regions: in sync with the
\* candidate splits, or stale (all zero).
TreeInit ==
    /\ encodedRows \in [1..MaxTreeRows -> EncodedRows]
    /\ \A row \in 1..(MaxTreeRows - 1) :
          encodedRows[row][1] <= encodedRows[row + 1][1]
    /\ \/ rowSplits = [row \in 1..MaxTreeRows |-> cachedSplits(encodedRows[row])]
       \/ rowSplits = [row \in 1..MaxTreeRows |-> [f \in 1..NumberFeatures |-> 0]]
    /\ tree = <<LeafNode>>
    /\ treePc = "grow"
    /\ splitReturn = <<>>
    /\ traversedRow = 0
    /\ cursor = 0
    /\ cachedCursor = 0
    /\ forest = <<>>
    /\ trainingDataRowMask = <<>>
    /\ lossGradient = <<>>
    /\ numberThreads = 1
    /\ rowWorker = <<>>
    /\ retrainPc = "idle"
    /\ retrainStart
    /\ cvIdle
    /\ layoutIdle
    /\ countsIdle
    /\ samplingIdle
    /\ typesIdle

\* The extra columns of a frame of some columns: those of train, after them
\* those of incremental train if it is run, and a weight column which is
\* a column of the frame or the sentinel.
ExtraColumnsInit ==
    /\ numberLossParameters \in 1..MaxLossParameters
    /\ incrementalTrain \in BOOLEAN
    /\ \E frameColumns \in 1..MaxFrameColumns :
          \E weightColumn \in (0..(frameColumns - 1)) \cup {UNIT_ROW_WEIGHT_COLUMN} :
             LET train == extraColumnsForTrain(numberLossParameters)
                 incremental == IF incrementalTrain
                                THEN extraColumnsForIncrementalTrain(numberLossParameters)
                                ELSE <<>>
                 trainColumns == resizeColumns(frameColumns, train)
                 afterTrain == resizedNumberColumns(frameColumns, train)
                 afterIncremental == resizedNumberColumns(afterTrain, incremental)
             IN /\ numberColumns = afterIncremental
                /\ extraColumns =
                       <<trainColumns[1], trainColumns[2], trainColumns[3],
                         weightColumn,
                         IF incrementalTrain
                         THEN resizeColumns(afterTrain, incremental)[1]
                         ELSE 0,
                         afterIncremental>>
    /\ layoutPc = "ready"
    /\ helper = ""
    /\ addressedTag = 0
    /\ touched = {}
    /\ exampleWeight = 0
    /\ cvIdle
    /\ retrainIdle
    /\ treeIdle
    /\ countsIdle
    /\ samplingIdle
    /\ typesIdle

\* The explored calls of categoryFrequencies: frames of two columns, the
\* first with the categories 0 and 1 and missing values, the second with
\* the categories 0 and 1 in turn.
CountsInit ==
    /\ \E rows \in 0..MaxCountRows :
          /\ \E firstColumn \in [1..rows -> {Missing, 0, 1}] :
                frameRows = [row \in 1..rows |-> <<firstColumn[row], row % 2>>]
          /\ countsRowMask \in [1..rows -> BOOLEAN]
          /\ countsThreads \in 1..MaxThreads
          /\ countsRowWorker \in Chunkings(rows, countsThreads)
    /\ columnIsCategorical \in [1..NumberCountColumns -> BOOLEAN]
    /\ countsColumnMask \in SUBSET (0..(NumberCountColumns - 1))
    /\ readOk \in BOOLEAN
    /\ countsPc = "call"
    /\ reduction = <<>>
    /\ doReduceReturned = "none"
    /\ reduceFirstCalls = 0
    /\ reduceCalls = 0
    /\ reduceOrder = <<>>
    /\ countsReturned = <<>>
    /\ frequenciesReturned = <<>>
    /\ cvIdle
    /\ retrainIdle
    /\ treeIdle
    /\ layoutIdle
    /\ samplingIdle
    /\ typesIdle

CountsNext ==
    \/ CategoryCountsOfNothing
    \/ CategoryCounts
    \/ CategoryFrequencies

CountsSpec == CountsInit /\ [][CountsNext]_vars

\* The most workers whose states doReduce is handed.
MaxReduceThreads == 3

\* The explored calls of doReduce: categoryCounts of frames whose first
\* column holds the categories 0 and 1, every row in the mask, read by up
\* to MaxReduceThreads workers.
ReduceInit ==
    /\ \E rows \in 0..MaxCountRows :
          /\ \E firstColumn \in [1..rows -> {0, 1}] :
                frameRows = [row \in 1..rows |-> <<firstColumn[row], row % 2>>]
          /\ countsRowMask = [row \in 1..rows |-> TRUE]
          /\ countsThreads \in 1..MaxReduceThreads
          /\ countsRowWorker \in Chunkings(rows, countsThreads)
    /\ columnIsCategorical = [column \in 1..NumberCountColumns |-> TRUE]
    /\ countsColumnMask \in {{0}, {0, 1}}
    /\ readOk \in BOOLEAN
    /\ countsPc = "call"
    /\ reduction = <<>>
    /\ doReduceReturned = "none"
    /\ reduceFirstCalls = 0
    /\ reduceCalls = 0
    /\ reduceOrder = <<>>
    /\ countsReturned = <<>>
    /\ frequenciesReturned = <<>>
    /\ cvIdle
    /\ retrainIdle
    /\ treeIdle
    /\ layoutIdle
    /\ samplingIdle
    /\ typesIdle

ReduceSpec == ReduceInit /\ [][CountsNext]_vars

\* The explored calls of distributionPreservingSamplingRowMask: every target
\* column, source mask and training mask of MaxRows rows.
SamplingInit ==
    /\ category \in TargetColumns(MaxRows, MaxCategories)
    /\ allTrainingRowMask \in [1..MaxRows -> BOOLEAN]
    /\ distributionSourceRowMask \in [1..MaxRows -> BOOLEAN]
    /\ numberFolds = 1
    /\ trainFractionPerFold = <<1, 2>>
    /\ rngOutcomes = "all"
    /\ pc = "idle"
    /\ cvStart
    /\ samplingPc = "call"
    /\ sortedRowIndices = <<>>
    /\ rowsExtended = 0
    /\ samplesRowMask = <<>>
    /\ retrainIdle
    /\ treeIdle
    /\ layoutIdle
    /\ countsIdle
    /\ typesIdle

SamplingNext ==
    \/ InsufficientTrainingRows
    \/ SampleTrainingRows
    \/ SampleRowWithoutSampler
    \/ ExtendWithSampledRow
    \/ ReturnSamplesRowMask

SamplingSpec == SamplingInit /\ [][SamplingNext]_vars

\* The explored calls of columnDataTypes: the frames, masks and chunks of
\* the calls of categoryFrequencies.
DataTypesInit ==
    /\ \E rows \in 0..MaxCountRows :
          /\ \E firstColumn \in [1..rows -> {Missing, 0, 1}] :
                frameRows = [row \in 1..rows |-> <<firstColumn[row], row % 2>>]
          /\ countsRowMask \in [1..rows -> BOOLEAN]
          /\ countsThreads \in 1..MaxThreads
          /\ countsRowWorker \in Chunkings(rows, countsThreads)
    /\ columnIsCategorical = [column \in 1..NumberCountColumns |-> FALSE]
    /\ countsColumnMask \in SUBSET (0..(NumberCountColumns - 1))
    /\ readOk \in BOOLEAN
    /\ countsPc = "idle"
    /\ reduction = <<>>
    /\ doReduceReturned = "none"
    /\ reduceFirstCalls = 0
    /\ reduceCalls = 0
    /\ reduceOrder = <<>>
    /\ countsReturned = <<>>
    /\ frequenciesReturned = <<>>
    /\ typesPc = "call"
    /\ typesReturned = <<>>
    /\ cvIdle
    /\ retrainIdle
    /\ treeIdle
    /\ layoutIdle
    /\ samplingIdle

DataTypesNext ==
    \/ ColumnDataTypesOfNothing
    \/ ColumnDataTypes
    \/ ColumnDataTypesPastEnd

DataTypesSpec == DataTypesInit /\ [][DataTypesNext]_vars

ExtraColumnsNext ==
    \/ ReadPrediction
    \/ ZeroPrediction
    \/ WritePrediction
    \/ WritePreviousPrediction
    \/ ReadPreviousPrediction
    \/ ReadLossDerivatives
    \/ ZeroLossGradient
    \/ WriteLossGradient
    \/ ReadLossCurvature
    \/ ZeroLossCurvature
    \/ WriteLossCurvature
    \/ ReadExampleWeight

ExtraColumnsSpec == ExtraColumnsInit /\ [][ExtraColumnsNext]_vars

TreeNext ==
    \/ SplitWithCandidates
    \/ SplitWithoutCandidates
    \/ CallLeafIndex
    \/ Descend
    \/ DescendCached
    \/ ReturnLeafIndex
    \/ ResumeGrowing

TreeSpec == TreeInit /\ [][TreeNext]_vars

\* The recursion of leafIndex goes on until it returns: the traversal is one
\* sequential computation, of whose three steps at most one is enabled.
FairTreeSpec ==
    /\ TreeSpec
    /\ WF_vars(Descend \/ DescendCached \/ ReturnLeafIndex)

(***************************************************************************)
(* Properties of retrainTreeSelectionProbabilities.                        *)
(***************************************************************************)
\* C5: a forest of fewer than 2 trees (the empty forest included) returns an
\* empty probability list and performs no row read and no division.
C5_FewerThanTwoTreesReturnsEmpty ==
    (retrainPc = "done" /\ Len(forest) < 2) =>
        /\ result = <<>>
        /\ rowsRead = 0
        /\ divisions = 0

C5_Witness ==
    /\ retrainPc = "done"
    /\ Len(forest) = 1
    /\ Manhattan(trainingDataRowMask) >= 1
    /\ result = <<>>

\* C6: for every forest of at least 2 trees and every training row mask
\* there is one probability per tree, every probability is >= 0 and the
\* probabilities sum to 1.
C6_ProbabilitiesAreNormalised ==
    (retrainPc = "done" /\ Len(forest) >= 2) =>
        /\ Len(result) = Len(forest)
        /\ \A i \in 1..Len(result) :
              /\ result[i].finite
              /\ result[i].num >= 0
              /\ result[i].den > 0
        /\ \A i \in 1..Len(result) :
              SumSeq([k \in 1..Len(result) |-> result[k].num]) = result[i].den

(***************************************************************************)
(* Properties of CBoostedTreeNode: split and leafIndex.                    *)
(***************************************************************************)
\* The child indices of the nodes of indices in the set.
ChildIndices(nodes, indices) ==
    {nodes[k + 1].leftChild : k \in indices} \cup
    {nodes[k + 1].rightChild : k \in indices}

RECURSIVE ReachableWithin(_, _, _)
\* The indices reached from the set by following at most steps child
\* indices.
ReachableWithin(nodes, indices, steps) ==
    IF steps = 0 THEN indices
    ELSE ReachableWithin(
             nodes,
             indices \cup (ChildIndices(nodes, indices) \cap (0..(Len(nodes) - 1))),
             steps - 1)

\* The indices reachable from the root.
ReachableFromRoot(nodes) == ReachableWithin(nodes, {0}, Len(nodes))

\* A tree is being grown or traversed.
TreeExists == treePc \in {"grow", "traverse", "returned"}

\* C11: in a tree built from a single root by splits, every node index is
\* reachable from index 0 by the child indices, and a node has a left child
\* if and only if it has a right child, so that a node is a leaf exactly
\* when it has no left child index.
C11_EveryNodeReachableAndLeafIffNoLeftChild ==
    TreeExists =>
        /\ ReachableFromRoot(tree) = 0..(Len(tree) - 1)
        /\ \A k \in 1..Len(tree) :
              /\ (tree[k].leftChild = NoChild) <=> (tree[k].rightChild = NoChild)
              /\ isLeaf(tree[k]) <=>
                     (tree[k].leftChild = NoChild /\ tree[k].rightChild = NoChild)

\* A tree of two splits, the second of them below the root.
C11_Witness ==
    /\ TreeExists
    /\ Len(tree) >= 5
    /\ \E k \in 2..Len(tree) : ~isLeaf(tree[k])
    /\ ReachableFromRoot(tree) = 0..(Len(tree) - 1)

\* C12: every split of a leaf appends exactly two leaves to the tree and
\* returns their indices, both greater than every index there was; every
\* node there was keeps its index, and only the split leaf changes.
C12_SplitIsAppendOnly ==
    [][tree' # tree =>
          /\ Len(tree') = Len(tree) + 2
          /\ splitReturn' = <<Len(tree), Len(tree) + 1>>
          /\ \A i \in 1..2 : \A k \in 0..(Len(tree) - 1) : splitReturn'[i] > k
          /\ isLeaf(tree'[Len(tree) + 1]) /\ isLeaf(tree'[Len(tree) + 2])
          /\ \E leaf \in 1..Len(tree) :
                /\ isLeaf(tree[leaf]) /\ ~isLeaf(tree'[leaf])
                /\ \A k \in 1..Len(tree) : k # leaf => tree'[k] = tree[k]]_vars

\* A split of a leaf other than the root has returned.
C12_Witness ==
    /\ TreeExists
    /\ Len(tree) = 5
    /\ splitReturn = <<3, 4>>
    /\ \E k \in 2..3 : ~isLeaf(tree[k])

\* C13: for every row and every tree grown by splits, both leafIndex
\* traversals terminate, each at the index of a leaf.
C13_LeafIndexTerminatesAtLeaf ==
    (treePc = "traverse") ~>
        (/\ treePc = "returned"
         /\ isLeaf(tree[cursor + 1])
         /\ isLeaf(tree[cachedCursor + 1]))

\* Both traversals have returned a leaf two levels below the root.
C13_Witness ==
    /\ treePc = "returned"
    /\ cursor >= 3
    /\ cachedCursor >= 3
    /\ isLeaf(tree[cursor + 1])
    /\ isLeaf(tree[cachedCursor + 1])

\* The split indices cached for the row are in sync with the tree: they are
\* those of the row's values among the candidate splits, and every split of
\* the tree holds its position among the same candidate splits.
InSync(row) ==
    /\ rowSplits[row + 1] = cachedSplits(encodedRows[row + 1])
    /\ \A k \in 1..Len(tree) :
          ~isLeaf(tree[k]) =>
              /\ tree[k].split =
                     UpperBound(CandidateSplits[tree[k].splitFeature + 1],
                                tree[k].splitValue)
              /\ tree[k].missingSplit =
                     missingSplit(CandidateSplits[tree[k].splitFeature + 1])

\* C14: when the split indices cached for a row are in sync with the tree,
\* leafIndex(row, extraColumns, tree) and leafIndex(encodedRow, tree) return
\* the same leaf index.
C14_CachedAndReevaluatedAgree ==
    (treePc = "returned" /\ InSync(traversedRow)) =>
        /\ cachedCursor = cursor
        /\ cursor = leafIndex(traversedRow, tree, 0)

\* In sync, both traversals returned a leaf two levels below the root for a
\* row with a missing value and a value equal to a split value.
C14_Witness ==
    /\ treePc = "returned"
    /\ InSync(traversedRow)
    /\ cursor >= 3
    /\ cachedCursor = cursor
    /\ \E f \in 1..NumberFeatures : encodedRows[traversedRow + 1][f] = Missing
    /\ \E k \in 1..Len(tree) :
          /\ ~isLeaf(tree[k])
          /\ encodedRows[traversedRow + 1][tree[k].splitFeature + 1] = tree[k].splitValue

\* Out of sync the two traversals can return different leaves.
C14_OutOfSyncDisagree ==
    /\ treePc = "returned"
    /\ ~InSync(traversedRow)
    /\ cachedCursor # cursor

(***************************************************************************)
(* Properties of the extra columns and their helpers.                      *)
(***************************************************************************)
\* The columns reserved for the tag in the row.
reservedColumns(tag) == Columns(extraColumns[tag + 1], reservedWidth(tag))

\* The extra columns were laid out.
LaidOut == layoutPc \in {"ready", "called"}

\* C15 as stated: the widths reserved are P for the prediction,
\* P + P(P+1)/2 for the gradient and P(P+1)/2 for the curvature.
C15_WidthsWithHessianInGradient ==
    LaidOut =>
        /\ reservedWidth(E_Prediction) = numberLossParameters
        /\ reservedWidth(E_Gradient) =
               numberLossParameters + lossHessianUpperTriangleSize(numberLossParameters)
        /\ reservedWidth(E_Curvature) = lossHessianUpperTriangleSize(numberLossParameters)

\* C15 amended: for every P >= 1 the widths reserved are P for the
\* prediction, P for the gradient and P * P for the curvature, and the
\* blocks are laid out in this order without overlap.
C15_WidthsReserved ==
    LaidOut =>
        /\ numberLossParameters >= 1
        /\ reservedWidth(E_Prediction) = numberLossParameters
        /\ reservedWidth(E_Gradient) = numberLossParameters
        /\ reservedWidth(E_Curvature) = numberLossParameters * numberLossParameters
        /\ extraColumns[E_Gradient + 1] >=
               extraColumns[E_Prediction + 1] + numberLossParameters
        /\ extraColumns[E_Curvature + 1] =
               extraColumns[E_Gradient + 1] + numberLossParameters
        /\ numberColumns >= extraColumns[E_Curvature + 1] +
                                numberLossParameters * numberLossParameters

\* Two loss parameters and more, where P * P is more than P(P+1)/2, with
\* the gradient block moved up to its alignment.
C15_Witness ==
    /\ LaidOut
    /\ numberLossParameters >= 2
    /\ reservedWidth(E_Curvature) > lossHessianUpperTriangleSize(numberLossParameters)
    /\ extraColumns[E_Gradient + 1] >
           extraColumns[E_Prediction + 1] + numberLossParameters

\* The helpers that C16 lists.
ListedHelpers ==
    {"readPrediction", "zeroPrediction", "writePrediction",
     "writePreviousPrediction", "zeroLossGradient", "writeLossGradient",
     "readLossDerivatives", "readLossCurvature", "zeroLossCurvature",
     "writeLossCurvature"}

\* C16 as stated: every listed helper touches only columns reserved for the
\* tag it addresses.
C16_HelpersStayInsideTag ==
    (layoutPc = "called" /\ helper \in ListedHelpers) =>
        touched \subseteq reservedColumns(addressedTag)

\* C16 amended: every listed helper but readLossDerivatives touches only
\* columns reserved for the tag it addresses; readLossDerivatives reads the
\* P + P(P+1)/2 columns from the first gradient column on, P(P+1)/2 of them
\* after the P gradient columns, which are curvature columns where the
\* curvature block follows the gradient block.
C16_HelpersStayInsideTagButDerivatives ==
    (layoutPc = "called" /\ helper \in ListedHelpers) =>
        IF helper = "readLossDerivatives"
        THEN /\ touched =
                    Columns(extraColumns[E_Gradient + 1],
                            numberLossParameters +
                            lossHessianUpperTriangleSize(numberLossParameters))
             /\ Cardinality(touched \ reservedColumns(E_Gradient)) =
                    lossHessianUpperTriangleSize(numberLossParameters)
             /\ touched \subseteq
                    (reservedColumns(E_Gradient) \cup reservedColumns(E_Curvature))
        ELSE touched \subseteq reservedColumns(addressedTag)

\* readLossDerivatives was called on a row of two and more loss parameters.
C16_Witness ==
    /\ layoutPc = "called"
    /\ helper = "readLossDerivatives"
    /\ numberLossParameters >= 2
    /\ ~(touched \subseteq reservedColumns(E_Gradient))

\* C17: readExampleWeight returns 1.0 without indexing the row when the
\* weight column is UNIT_ROW_WEIGHT_COLUMN and the row's cell at the weight
\* column otherwise; it never indexes a column the row does not have.
C17_UnitWeightReadsNoCell ==
    (layoutPc = "called" /\ helper = "readExampleWeight") =>
        /\ IF extraColumns[E_Weight + 1] = UNIT_ROW_WEIGHT_COLUMN
           THEN exampleWeight = 1 /\ touched = {}
           ELSE /\ exampleWeight = rowCell(extraColumns[E_Weight + 1])
                /\ touched = {extraColumns[E_Weight + 1]}
        /\ \A column \in touched : column < numberColumns

\* readExampleWeight was called with the sentinel for the weight column.
C17_Witness ==
    /\ layoutPc = "called"
    /\ helper = "readExampleWeight"
    /\ extraColumns[E_Weight + 1] = UNIT_ROW_WEIGHT_COLUMN
    /\ exampleWeight = 1

\* readExampleWeight was called with a weight column of the frame.
C17_WeightColumnRead ==
    /\ layoutPc = "called"
    /\ helper = "readExampleWeight"
    /\ extraColumns[E_Weight + 1] # UNIT_ROW_WEIGHT_COLUMN
    /\ exampleWeight = rowCell(extraColumns[E_Weight + 1])

(***************************************************************************)
(* Properties of doReduce, categoryCounts and categoryFrequencies.         *)
(***************************************************************************)
\* The masked rows whose value in the column is the category.
RowsOfCategory(column, c) ==
    {row \in OneBits(countsRowMask) : frameRows[row + 1][column + 1] = c}

\* The counts of the column as C18 states them: entry c is the number of
\* masked rows whose value is c, up to the largest category among them, for
\* a categorical column of the mask, and nothing for every other column.
StatedCounts(column) ==
    LET seen == {frameRows[row + 1][column + 1] : row \in OneBits(countsRowMask)}
                    \ {Missing}
        size == IF seen = {} THEN 0
                ELSE (CHOOSE c \in seen : \A d \in seen : d <= c) + 1
    IN IF column \in countsColumnMask /\ columnIsCategorical[column + 1]
       THEN [c \in 1..size |-> Cardinality(RowsOfCategory(column, c - 1))]
       ELSE <<>>

\* What one thread counts: readCategoryCounts over all the masked rows.
OneThreadCounts ==
    readCategoryCounts(EmptyCounts, SortedSeq(OneBits(countsRowMask)),
                       removeMetricColumns(countsColumnMask))

C20_FailedReadIsNotReduced ==
    (countsPc \in {"counted", "done"} /\ doReduceReturned # "none") =>
        IF readOk
        THEN /\ doReduceReturned = "true"
             /\ reduceFirstCalls = 1
             /\ reduceCalls = countsThreads - 1
        ELSE /\ doReduceReturned = "false"
             /\ reduceFirstCalls = 0
             /\ reduceCalls = 0
             /\ reduction = <<>>
             /\ countsReturned = <<>>

\* doReduce was handed a failed read of two workers which had counted rows.
C20_Witness ==
    /\ countsPc = "counted"
    /\ ~readOk
    /\ doReduceReturned = "false"
    /\ countsThreads >= 2
    /\ OneThreadCounts # EmptyCounts

(***************************************************************************)
(* retrainTreeSelectionProbabilities with one thread and with several.     *)
(***************************************************************************)
\* The leaf loss gradients when one worker reads all the masked rows.
OneThreadLeafLossGradients ==
    readChunk(makeZeroLeafLossGradients, SortedSeq(OneBits(trainingDataRowMask)))

\* The loss gradients of all the nodes from those of one worker.
OneThreadLossGradients ==
    [i \in 1..Len(forest) |->
        propagateLossGradients(0, forest[i], OneThreadLeafLossGradients[i])]

\* Lines 217-224 from the gradients of one worker.
OneThreadScore(i) ==
    IF i = 0 THEN 0
    ELSE SumSeq([j \in 1..(Len(forest[i + 1]) - 1) |->
                    L1Norm(OneThreadLossGradients[i + 1][j + 1])])

\* The probabilities returned with numberThreads = 1.
OneThreadProbabilities ==
    LET Z == SumSeq([i \in 1..(Len(forest) - 1) |-> OneThreadScore(i)])
    IN [i \in 1..Len(forest) |-> Divide(OneThreadScore(i - 1), Z)]

\* The two vectors hold the same probabilities: equal quotients where the
\* divisor is not zero, and otherwise both not a number (0 / 0) or both
\* infinite.
SameProbabilities(p, q) ==
    /\ Len(p) = Len(q)
    /\ \A i \in 1..Len(p) :
          /\ p[i].finite = q[i].finite
          /\ IF p[i].finite
             THEN p[i].num * q[i].den = q[i].num * p[i].den
             ELSE (p[i].num = 0) = (q[i].num = 0)

\* C19: the merged leaf loss gradients and the probabilities returned are
\* those of one thread however the rows are split among the workers.
C19_ProbabilitiesDoNotDependOnChunking ==
    /\ retrainPc = "propagate" =>
           trainingDataLossGradients = OneThreadLeafLossGradients
    /\ (retrainPc = "done" /\ ~TooFewTrees(forest)) =>
           SameProbabilities(result, OneThreadProbabilities)

\* The probabilities returned with two workers differ from those of one.
C19_ProbabilitiesDependOnChunking ==
    /\ retrainPc = "done"
    /\ ~TooFewTrees(forest)
    /\ numberThreads = 2
    /\ ~SameProbabilities(result, OneThreadProbabilities)

(***************************************************************************)
(* The gradients of the leaves and of the internal nodes, and the scores.  *)
(***************************************************************************)
RECURSIVE SumVectors(_)
\* The sum of a sequence of vectors.
SumVectors(vectors) ==
    IF vectors = <<>> THEN ZeroVector
    ELSE VectorSum(Head(vectors), SumVectors(Tail(vectors)))

\* The masked rows which tree i (from 1) assigns to the node of index leaf.
RowsOfLeaf(i, leaf) ==
    {row \in OneBits(trainingDataRowMask) : leafIndex(row, forest[i], 0) = leaf}

\* The sum of the loss gradients of the rows, in ascending row order.
SumOfRowGradients(rows) ==
    LET ordered == SortedSeq(rows)
    IN SumVectors([k \in 1..Len(ordered) |-> lossGradient[ordered[k] + 1]])

\* C24: after the row pass every leaf of every tree holds the sum of the
\* loss gradients of the masked rows assigned to it.
C24_LeafGradientIsSumOverRows ==
    retrainPc = "propagate" =>
        \A i \in 1..Len(forest) : \A k \in 1..Len(forest[i]) :
            isLeaf(forest[i][k]) =>
                trainingDataLossGradients[i][k] = SumOfRowGradients(RowsOfLeaf(i, k - 1))

\* A leaf to which two masked rows are assigned holds the gradient of the
\* last of them only.
C24_LaterRowReplacesEarlier ==
    /\ retrainPc = "propagate"
    /\ numberThreads = 1
    /\ \E i \in 1..Len(forest) : \E k \in 1..Len(forest[i]) :
          /\ isLeaf(forest[i][k])
          /\ Cardinality(RowsOfLeaf(i, k - 1)) >= 2
          /\ trainingDataLossGradients[i][k] # SumOfRowGradients(RowsOfLeaf(i, k - 1))

RECURSIVE SubtreeLeaves(_, _)
\* The indices of the leaves in the subtree of the node.
SubtreeLeaves(nodes, node) ==
    IF isLeaf(nodes[node + 1]) THEN {node}
    ELSE SubtreeLeaves(nodes, nodes[node + 1].leftChild) \cup
         SubtreeLeaves(nodes, nodes[node + 1].rightChild)

\* The sum of the gradients of the leaves in the subtree of the node.
SumOfSubtreeLeaves(nodes, lossGradients, node) ==
    LET ordered == SortedSeq(SubtreeLeaves(nodes, node))
    IN SumVectors([k \in 1..Len(ordered) |-> lossGradients[ordered[k] + 1]])

\* C25: after propagateLossGradients(root) every internal node holds the
\* sum of the gradients of the leaves of its subtree, which it does only if
\* it added its children once, after they were complete; the leaves are
\* left as they were.
C25_InternalNodeIsSumOfSubtreeLeaves ==
    (retrainPc \in {"normalise", "done"} /\ Len(forest) >= 2) =>
        \A i \in 1..Len(forest) : \A k \in 1..Len(forest[i]) :
            trainingDataLossGradients[i][k] =
                SumOfSubtreeLeaves(forest[i], trainingDataLossGradients[i], k - 1)

\* A tree of two levels was propagated: the root and the internal node
\* below it hold different sums, neither of them zero.
C25_Witness ==
    /\ retrainPc = "normalise"
    /\ \E i \in 1..Len(forest) :
          /\ Len(forest[i]) = 5
          /\ \E k \in 2..3 :
                /\ ~isLeaf(forest[i][k])
                /\ trainingDataLossGradients[i][k] # ZeroVector
                /\ trainingDataLossGradients[i][1] # ZeroVector
                /\ trainingDataLossGradients[i][1] # trainingDataLossGradients[i][k]

\* C26: for a forest of at least 2 trees tree 0 has probability 0 and the
\* score of every other tree is the sum over its nodes of index >= 1 of the
\* L1 norm of the node's gradient, the root left out.
C26_TreeZeroHasProbabilityZero ==
    (retrainPc = "done" /\ Len(forest) >= 2) =>
        /\ result[1].finite /\ result[1].num = 0
        /\ \A i \in 2..Len(forest) :
              result[i].num =
                  SumSeq([j \in 2..Len(forest[i]) |->
                             L1Norm(trainingDataLossGradients[i][j])])

\* The scores themselves are as stated, whatever their sum.
C26_ScoresLeaveOutRootAndTreeZero ==
    (retrainPc = "done" /\ Len(forest) >= 2) =>
        /\ result[1].num = 0
        /\ \A i \in 2..Len(forest) :
              result[i].num =
                  SumSeq([j \in 1..(Len(forest[i]) - 1) |->
                             L1Norm(trainingDataLossGradients[i][j + 1])])

\* C30: no division of retrainTreeSelectionProbabilities has the divisor
\* zero.
C30_NoDivisionByZero ==
    (retrainPc = "done" /\ divisions > 0) =>
        \A i \in 1..Len(result) : result[i].den # 0

(***************************************************************************)
(* The order in which doReduce calls its two steps.                        *)
(***************************************************************************)
\* C27: when the read succeeded doReduce returns true after it called the
\* seed step on worker 0 and then the fold step on the workers 1..n - 1 in
\* ascending order, each exactly once; no fold step precedes the seed step.
C27_SeedThenFoldsInAscendingOrder ==
    (countsPc \in {"counted", "done"} /\ doReduceReturned # "none" /\ readOk) =>
        /\ doReduceReturned = "true"
        /\ Len(reduceOrder) = countsThreads
        /\ reduceOrder[1] = <<"reduceFirst", 0>>
        /\ \A k \in 2..countsThreads : reduceOrder[k] = <<"reduce", k - 1>>

\* Three workers, each of which counted a row, were reduced.
C27_Witness ==
    /\ countsPc = "counted"
    /\ doReduceReturned = "true"
    /\ countsThreads = 3
    /\ Len(reduceOrder) = 3
    /\ \A w \in 0..2 : \E row \in OneBits(countsRowMask) : countsRowWorker[row + 1] = w

(***************************************************************************)
(* The folds of stratifiedCrossValidationRowMasks: which branch fills them *)
(* and which categories they hold.                                         *)
(***************************************************************************)
\* The masks filled by the loop over the folds are all non-empty.
NoEmptyMask(masks) == \A f \in 1..Len(masks) : Manhattan(masks[f]) > 0

\* The loop is about to take the branch which assigns what remains.
TakesRemainder == pc = "folds" /\ TakeRemainder(candidateTestingRowMask, sampleSize)

\* C28 as stated: the branch which assigns the whole remaining mask is taken
\* for the last fold only, and whenever the call returns masks (n >= F) no
\* returned test mask is empty.
C28_NoTestMaskEmpty ==
    /\ TakesRemainder => fold = numberFolds
    /\ (pc = "done" /\ fatalErrors = 0) => NoEmptyMask(testingRowMasks)

\* C28: the branch which assigns the whole remaining mask is taken for the
\* last fold only; for n >= F no mask filled by the loop is empty, and no
\* returned test mask is empty unless the only row of a single fold went to
\* the train set (one row, one fold, train fraction below one half).
C28_NoTestMaskEmptyButOfSingleRow ==
    /\ TakesRemainder => fold = numberFolds
    /\ pc = "complement" => NoEmptyMask(testingRowMasks)
    /\ (pc = "done" /\ fatalErrors = 0) =>
           \/ NoEmptyMask(testingRowMasks)
           \/ /\ numberFolds = 1
              /\ numberTrainingRows = 1
              /\ SwapTrainAndTest(trainFractionPerFold)

\* The last of several folds took the rows that remained, more than one.
C28_Witness ==
    /\ pc = "complement"
    /\ numberFolds >= 2
    /\ Manhattan(candidateTestingRowMask) = 0
    /\ Manhattan(testingRowMasks[numberFolds]) >= 2
    /\ NoEmptyMask(testingRowMasks)

\* The categories of the candidate rows.
PresentCategories == {category[row + 1] : row \in OneBits(allTrainingRowMask)}

\* C29: every category present in the candidate mask has a row in the test
\* mask of at least one fold.
C29_EveryCategoryInSomeTestMask ==
    (pc = "done" /\ fatalErrors = 0) =>
        \A c \in PresentCategories :
            \E f \in 1..numberFolds : StratumRows(testingRowMasks[f], c) # {}

\* Five rows of the categories 0, 0, 0, 0, 1 in 3 folds: the desired count
\* of category 1 is zero in every fold, the last included, which samples
\* one of the three rows that remain.
C29_RareCategoryInNoTestMask ==
    /\ pc = "done"
    /\ fatalErrors = 0
    /\ category = <<0, 0, 0, 0, 1>>
    /\ Manhattan(allTrainingRowMask) = 5
    /\ \A f \in 1..numberFolds : StratumRows(testingRowMasks[f], 1) = {}

(***************************************************************************)
(* The mask distributionPreservingSamplingRowMask returns.                 *)
(***************************************************************************)
\* The number of rows of category c in the mask.
CountOf(rowMask, c) == Cardinality(StratumRows(rowMask, c))

\* The returned mask has the length of allTrainingRowMask, selects rows of
\* allTrainingRowMask only, and of every category of which
\* allTrainingRowMask has enough rows as many as the source mask has.
PreservesDistribution ==
    /\ Len(samplesRowMask) = Len(allTrainingRowMask)
    /\ OneBits(samplesRowMask) \subseteq OneBits(allTrainingRowMask)
    /\ \A c \in 0..(MaxCategories - 1) :
          CountOf(allTrainingRowMask, c) >= CountOf(distributionSourceRowMask, c) =>
              CountOf(samplesRowMask, c) = CountOf(distributionSourceRowMask, c)

\* C22: every call of distributionPreservingSamplingRowMask returns, and
\* returns a mask of the length of allTrainingRowMask which selects rows of
\* allTrainingRowMask only and as many rows of every category as the source
\* mask has, where allTrainingRowMask has as many.
C22_SampledCountsEqualSourceCounts ==
    /\ samplingPc # "undefined"
    /\ samplingPc \in {"done", "failed"} => PreservesDistribution

\* What holds: with two training rows or more, each of a category the
\* source mask's counts reach, the returned mask preserves the distribution.
C22_PreservedWhenEveryRowHasASampler ==
    (/\ samplingPc = "done"
     /\ RowsWithoutSampler(classifierDistributionPreservingRowSampler(
                              distributionSourceRowMask)) = {}) =>
        PreservesDistribution

\* A training row of a category above every category of the source mask
\* selected a reservoir which does not exist.
C22_RowSelectedMissingSampler ==
    /\ samplingPc = "undefined"
    /\ Manhattan(distributionSourceRowMask) >= 1
    /\ \A c \in 0..(MaxCategories - 1) :
          CountOf(allTrainingRowMask, c) >= CountOf(distributionSourceRowMask, c)

\* One iteration of the loop over the sampled rows: extend(false, k) and
\* extend(true) make the mask k + 1 longer, keep what it held, clear the k
\* bits and set the last.
ExtendsByGapAndOne ==
    (samplingPc = "extend" /\ rowsExtended' = rowsExtended + 1) =>
        LET k == sortedRowIndices[rowsExtended'] - Len(samplesRowMask)
            n == Len(samplesRowMask)
        IN /\ Len(samplesRowMask') = n + k + 1
           /\ SubSeq(samplesRowMask', 1, n) = samplesRowMask
           /\ \A i \in (n + 1)..(n + k) : ~samplesRowMask'[i]
           /\ samplesRowMask'[n + k + 1]

\* C23: extend(false, k) followed by extend(true, 1) makes the mask exactly
\* k + 1 longer and sets only the last bit, and the mask built from the
\* ascending distinct sampled row indices has the length of the candidate
\* mask and its set bits exactly at the sampled indices.
C23_SampledMaskHasBitsAtSampledRows ==
    /\ [][ExtendsByGapAndOne]_vars
    /\ [](samplingPc = "done" =>
             /\ Len(samplesRowMask) = Len(allTrainingRowMask)
             /\ OneBits(samplesRowMask) =
                    {sortedRowIndices[i] : i \in 1..Len(sortedRowIndices)})

\* A mask was built from two sampled rows with a gap between them and
\* unsampled rows after the last.
C23_Witness ==
    /\ samplingPc = "done"
    /\ Len(sortedRowIndices) = 2
    /\ sortedRowIndices[2] > sortedRowIndices[1] + 1
    /\ sortedRowIndices[2] < Len(allTrainingRowMask) - 1

(***************************************************************************)
(* The callers of doReduce after a failed read.                            *)
(***************************************************************************)
\* C21: columnDataTypes, a caller of doReduce, never indexes past the end of
\* the reduction it was left with, and after a failed read it returns an
\* empty result.
C21_FailedReductionGivesEmptyResult ==
    /\ typesPc # "undefined"
    /\ (typesPc = "done" /\ ~readOk) => typesReturned = <<>>

\* After a failed read columnDataTypes indexed the empty types with a
\* column of its mask.
C21_FailedReductionIsIndexed ==
    /\ typesPc = "undefined"
    /\ ~readOk
    /\ Len(frameRows) > 0
    /\ countsColumnMask # {}

\* What holds: after a read that succeeded, or with an empty column mask,
\* columnDataTypes stays inside its vectors.
C21_SuccessfulReductionIsIndexedInside ==
    (readOk \/ countsColumnMask = {}) => typesPc # "undefined"

====
